---- MODULE Spec2Model ----
(***************************************************************************)
(* Provisioning scripts of the identity-provider roles (Authentik and      *)
(* Zitadel).  Every script is a linear sequence of HTTP calls against a    *)
(* remote service; the model keeps the state of the running script (its    *)
(* position, its local variables, what it printed, its exit status, the    *)
(* requests it issued) and the state of the remote service it talks to.    *)
(***************************************************************************)
EXTENDS Integers, Sequences, FiniteSets, TLC

VARIABLES
    script,     \* which script this process runs
    argv,       \* its command-line arguments
    pc,         \* position in the script
    loc,        \* local variables of main
    wait,       \* frame of AuthentikAPI.wait_for_ready (clock, probes)
    reqs,       \* requests issued by this run, in order
    stdout,     \* what the run printed on standard output
    stderr,     \* what the run printed on standard error
    exitCode,   \* Running, or the exit status of the process
    srv,        \* state of the remote service
    runs,       \* how many runs of the script have been started
    past,       \* exit statuses of the earlier runs, in order
    peer        \* a second invocation running at the same time: its process
                \* state while the other one takes a step (NoPeer: there is none)

vars == <<script, argv, pc, loc, wait, reqs, stdout, stderr, exitCode, srv, runs,
          past, peer>>

----------------------------------------------------------------------------
(* Bounds of the model *)

\* length of the listings the remote service starts with
MaxList == 2
\* sequential runs of a script against the same service
MaxRuns == 2

----------------------------------------------------------------------------
(* Values *)

None == "None"
Running == "running"

\* time.sleep(5) of the readiness poll
SleepSecs == 5

\* urlopen(..., timeout=30): a probe that gets no answer lasts this long
UrlopenTimeout == 30
\* seconds one probe may take, up to the urlopen timeout
ProbeDurations == {0, 3, UrlopenTimeout}

Json(obj) == [kind |-> "json", obj |-> obj]
Text(t) == [kind |-> "text", text |-> t]

HasKey(item, k) == item.kind = "json" /\ k \in DOMAIN item.obj

\* dict.get('results', []) / dict.get("result", [])
Get(data, k, default) == IF k \in DOMAIN data THEN data[k] ELSE default

\* sequences without repetition over S, of length at most n
RECURSIVE SeqsUpTo(_, _)
SeqsUpTo(S, n) ==
    IF n = 0 THEN {<<>>}
    ELSE LET shorter == SeqsUpTo(S, n - 1)
         IN  shorter \cup
             {Append(s, x) : s \in {t \in shorter : Len(t) = n - 1},
                             x \in S}

Listings(S) ==
    {s \in SeqsUpTo(S, MaxList) : \A i, j \in 1..Len(s) : i # j => s[i] # s[j]}

\* next(x for x in seq if P(x), None): index of the first match, 0 if none
FirstIdx(seq, P(_)) ==
    IF \E i \in 1..Len(seq) : P(seq[i])
    THEN CHOOSE i \in 1..Len(seq) :
            P(seq[i]) /\ \A j \in 1..(i - 1) : ~P(seq[j])
    ELSE 0

\* str.lower(), letter by letter (ASCII)
RECURSIVE Lower(_)
Lower(s) ==
    LET UpperLetters == "ABCDEFGHIJKLMNOPQRSTUVWXYZ"
        LowerLetters == "abcdefghijklmnopqrstuvwxyz"
        c == SubSeq(s, 1, 1)
        at == {n \in 1..Len(UpperLetters) : SubSeq(UpperLetters, n, n) = c}
        lowered == IF at = {} THEN c
                   ELSE LET n == CHOOSE n \in at : TRUE IN SubSeq(LowerLetters, n, n)
    IN  IF Len(s) = 0 THEN ""
        ELSE lowered \o Lower(SubSeq(s, 2, Len(s)))

\* the 'in' of two strings: needle occurs in hay as a substring
Contains(needle, hay) ==
    \E n \in 1..(Len(hay) - Len(needle) + 1) :
        SubSeq(hay, n, n + Len(needle) - 1) = needle

----------------------------------------------------------------------------
(* What the transport hands to a request wrapper *)

\* an HTTP response: status, whether the body parses as JSON, the parsed body
Resp(status, isJson, data) ==
    [kind |-> "http", status |-> status, json |-> isJson, data |-> data]
\* no HTTP response: DNS failure, connection refused (urllib.error.URLError)
UrlError == [kind |-> "urlerror"]
\* no HTTP response: the read timed out (socket.timeout, not a URLError)
ReadTimeout == [kind |-> "timeout"]

ErrBody == [detail |-> "error"]
RawBody == [raw |-> "<html>"]

\* answers any endpoint may give instead of serving the request
Failures ==
    {Resp(s, j, IF j THEN ErrBody ELSE RawBody) : s \in {400, 403, 409, 500}, j \in BOOLEAN}
    \cup {Resp(200, FALSE, RawBody), UrlError, ReadTimeout}

Ret(status, data) == [raised |-> FALSE, status |-> status, data |-> data]
Raise(exc) == [raised |-> TRUE, status |-> -1, data |-> [exc |-> exc]]

\* AuthentikAPI._request: urlopen yields a response only for 2xx; every other
\* status arrives as HTTPError
_request(o) ==
    IF o.kind = "http" /\ o.status \in 200..299
    THEN IF o.json THEN Ret(o.status, o.data) ELSE Raise("JSONDecodeError")
    ELSE IF o.kind = "http"
    THEN Ret(o.status, IF o.json THEN o.data ELSE [error |-> o.data.raw])
    ELSE IF o.kind = "urlerror"
    THEN Ret(0, [error |-> "urlerror"])
    ELSE Raise("timeout")

----------------------------------------------------------------------------
(* The running process *)

\* every variable of a step but the script, its arguments and the run count
Move(p, l, w, q, so, se, ec, s) ==
    /\ pc' = p
    /\ loc' = l
    /\ wait' = w
    /\ reqs' = q
    /\ stdout' = so
    /\ stderr' = se
    /\ exitCode' = ec
    /\ srv' = s
    /\ UNCHANGED <<script, argv, runs, past, peer>>

\* the bearer credential of the Authorization header, for the scripts that
\* obtain their access token at run time (zitadel_api.py lines 68, 87, 110;
\* create_machine_user.py lines 33, 57, 83); None before they have one
Bearer ==
    IF script \in {"zitadel_api", "create_machine_user"}
    THEN loc.access_token
    ELSE None

\* one entry of the request log: method, endpoint, what the request carried,
\* the bearer credential it was sent with, what came back (status, 0 for no
\* HTTP response; whether the body was JSON; the body), whether the target
\* already existed when the request was sent
Req(m, ep, arg, o, existed) ==
    [method |-> m, ep |-> ep, arg |-> arg, auth |-> Bearer, status |-> IF o.kind = "http" THEN o.status ELSE 0,
     json |-> (o.kind = "http" /\ o.json),
     body |-> IF o.kind = "http" THEN o.data ELSE [exc |-> o.kind],
     existed |-> existed]

\* an exception nobody catches: the interpreter prints a traceback on standard
\* error and the process exits with status 1
CrashAfter(q, se) ==
    Move("done", loc, wait, q, stdout, Append(se, Text("Traceback")), 1, srv)

\* the same, when the step printed nothing before the exception
Crash(q) == CrashAfter(q, stderr)

NoWait == [now |-> 0, probes |-> 0, last |-> UrlError]

NoSrv ==
    [flows |-> <<>>, keys |-> <<>>, providers |-> <<>>, applications |-> <<>>,
     setupPending |-> FALSE, invStages |-> <<>>, bindings |-> <<>>,
     mfaStages |-> <<>>, totpStages |-> <<>>,
     projects |-> <<>>, apps |-> <<>>, users |-> <<>>, machineKeys |-> <<>>,
     grants |-> <<>>, pats |-> <<>>, nextId |-> 1]

NoneRec == [pk |-> None]

\* no second invocation
NoPeer == [id |-> 0]

FreshId(prefix, n) == prefix \o ToString(n)

----------------------------------------------------------------------------
(* authentik_api.py *)

DefaultAuthFlow ==
    [pk |-> "f1", slug |-> "default-authorization-flow", designation |-> "authorization"]
OtherAuthFlow ==
    [pk |-> "f2", slug |-> "implicit-consent", designation |-> "authorization"]
EnrollmentFlow ==
    [pk |-> "f3", slug |-> "default-enrollment-flow", designation |-> "enrollment"]
RecoveryFlow ==
    [pk |-> "f4", slug |-> "default-recovery-flow", designation |-> "recovery"]

AuthentikLoc ==
    [ready |-> FALSE, flow_uuid |-> None, key_uuid |-> None,
     provider |-> NoneRec, application |-> NoneRec]

\* main, lines 226-233: the arguments and the defaults derived from them
AuthentikArgs ==
    [domain : {"https://auth"}, app_name : {"Nextcloud"}, app_slug : {None, "nc"},
     token : BOOLEAN, bootstrap_password : BOOLEAN, wait_timeout : {0, 5, 12}]

AppSlug == IF argv.app_slug # None THEN argv.app_slug ELSE Lower(argv.app_name)

InitAuthentikApi ==
    /\ script = "authentik_api"
    /\ argv \in {a \in AuthentikArgs :
                    /\ a.token => ~a.bootstrap_password
                    /\ ~a.token => a.app_slug = None}
    /\ pc = "wait_for_ready"
    /\ loc = AuthentikLoc
    /\ \E fl \in Listings({DefaultAuthFlow, OtherAuthFlow, EnrollmentFlow}),
          ks \in Listings({"k1", "k2"}),
          existing \in BOOLEAN, pending \in BOOLEAN :
            /\ argv.token => ~pending
            /\ ~argv.token => fl = <<>> /\ ks = <<>> /\ ~existing
            /\ srv = [NoSrv EXCEPT
                        !.flows = fl, !.keys = ks, !.setupPending = pending,
                        !.providers =
                            IF existing
                            THEN <<[pk |-> "p0", name |-> argv.app_name,
                                    client_id |-> "cid-p0", client_secret |-> "sec-p0"]>>
                            ELSE <<>>,
                        !.applications =
                            IF existing
                            THEN <<[pk |-> "a0", slug |-> AppSlug,
                                    provider |-> "p0"]>>
                            ELSE <<>>]

\* what a probe of the root endpoint may come back with
ProbeOutcomes ==
    {Resp(s, j, IF j THEN ErrBody ELSE RawBody) : s \in {200, 302, 503}, j \in BOOLEAN}
    \cup {UrlError, ReadTimeout}

\* ProbeReady taking every answered probe, whatever its status, for success
ProbeReady_anyStatus(o) == ~_request(o).raised

\* wait_for_ready, lines 84-87: one probe; TRUE when it ends the poll with success
ProbeReady(o) ==
    LET r == _request(o)
    IN  ~r.raised /\ r.status \in {200, 302}

\* wait_for_ready, line 79: the line printed on entry, before the first pass
\* through the loop guard
Entered(se) ==
    IF wait.probes = 0 THEN Append(se, Text("Waiting for Authentik to be ready...")) ELSE se

\* wait_for_ready, one iteration of the loop (lines 79-91)
WaitProbe ==
    /\ script = "authentik_api"
    /\ pc = "wait_for_ready"
    /\ wait.now < argv.wait_timeout
    \* a probe whose answer never comes lasts the whole urlopen timeout
    /\ \E o \in ProbeOutcomes :
       \E d \in IF o.kind = "timeout" THEN {UrlopenTimeout} ELSE ProbeDurations :
        IF ProbeReady(o)
        THEN Move("main_ready", [loc EXCEPT !.ready = TRUE],
                  [now |-> wait.now + d, probes |-> wait.probes + 1, last |-> o],
                  reqs, stdout, Append(Entered(stderr), Text("Authentik is ready!")),
                  exitCode, srv)
        ELSE Move(pc, loc,
                  [now |-> wait.now + d + SleepSecs, probes |-> wait.probes + 1,
                   last |-> o],
                  reqs, stdout, Entered(stderr), exitCode, srv)

\* wait_for_ready, the loop guard fails (lines 79, 82, 93-94)
WaitTimeout ==
    /\ script = "authentik_api"
    /\ pc = "wait_for_ready"
    /\ ~(wait.now < argv.wait_timeout)
    /\ Move("main_ready", [loc EXCEPT !.ready = FALSE], wait, reqs, stdout,
            Append(Entered(stderr), Text("Timeout waiting for Authentik")), exitCode, srv)

\* main, lines 236-241
MainReady ==
    /\ script = "authentik_api"
    /\ pc = "main_ready"
    /\ IF ~loc.ready
       THEN Move("done", loc, NoWait, reqs,
                 Append(stdout, Json([error |-> "Authentik not ready"])),
                 stderr, 1, srv)
       ELSE Move(IF argv.token THEN "get_flow" ELSE "bootstrap", loc, NoWait,
                 reqs, stdout, stderr, exitCode, srv)

\* check_bootstrap_needed, lines 96-100: 200 = setup needed
check_bootstrap_needed(r) == r.status = 200

\* bootstrap_admin, lines 102-115: not implemented, always False
bootstrap_admin == FALSE

\* main without --token, lines 241-266
Bootstrap ==
    /\ script = "authentik_api"
    /\ pc = "bootstrap"
    /\ \E o \in Failures \cup
                {IF srv.setupPending THEN Resp(200, TRUE, [flow |-> "initial-setup"])
                                     ELSE Resp(404, TRUE, ErrBody)} :
        LET r == _request(o)
            q == Append(reqs, Req("GET", "initial-setup", None, o, FALSE))
        IN  IF r.raised THEN Crash(q)
            ELSE IF check_bootstrap_needed(r) /\ ~argv.bootstrap_password
            THEN Move("done", loc, wait, q,
                      Append(stdout,
                             Json([error |-> "Bootstrap needed but no password provided",
                                   action_required |-> "initial-setup",
                                   next_step |-> "provide --token"])),
                      stderr, 1, srv)
            ELSE IF check_bootstrap_needed(r) /\ ~bootstrap_admin
            THEN Move("done", loc, wait, q,
                      Append(stdout,
                             Json([error |-> "Bootstrap not yet automated",
                                   action_required |-> "initial-setup",
                                   instructions |-> "manual"])),
                      Append(Append(Append(stderr, Text("Bootstrapping admin user")),
                                    Text("WARNING: Automatic bootstrap not yet implemented")),
                             Text("Please complete initial setup")),
                      1, srv)
            ELSE Move("done", loc, wait, q, stdout,
                      Append(stderr,
                             Text("ERROR: No API token provided and bootstrap needed")),
                      1, srv)

IsDefaultSlug(f) == f.slug = "default-authorization-flow"
IsAuthorization(f) == f.designation = "authorization"

\* get_default_authorization_flow as a single pass that returns the first flow
\* with the default slug or the authorization designation
get_default_authorization_flow_onePass(r) ==
    LET res == Get(r.data, "results", <<>>)
        hits == {n \in 1..Len(res) : IsDefaultSlug(res[n]) \/ IsAuthorization(res[n])}
    IN  IF hits = {} THEN None
        ELSE res[CHOOSE n \in hits : \A m \in hits : n <= m].pk

\* get_default_authorization_flow, lines 137-152
get_default_authorization_flow(r) ==
    LET res == Get(r.data, "results", <<>>)
        i == IF r.status = 200 THEN FirstIdx(res, IsDefaultSlug) ELSE 0
        j == FirstIdx(res, IsAuthorization)
    IN  IF i > 0 THEN res[i].pk
        ELSE IF j > 0 THEN res[j].pk
        ELSE None

\* get_default_signing_key, lines 154-165
get_default_signing_key(r) ==
    LET res == Get(r.data, "results", <<>>)
    IN  IF r.status = 200 /\ Len(res) > 0 THEN res[1] ELSE None

\* main, line 269
GetFlow ==
    /\ script = "authentik_api"
    /\ pc = "get_flow"
    /\ \E o \in Failures \cup {Resp(200, TRUE, [results |-> srv.flows])} :
        LET r == _request(o)
            q == Append(reqs, Req("GET", "flows", None, o, FALSE))
            flow == get_default_authorization_flow(r)
        IN  IF r.raised THEN Crash(q)
            ELSE Move("get_key", [loc EXCEPT !.flow_uuid = flow], wait, q, stdout,
                      IF flow = None
                      THEN Append(stderr, Text("ERROR: No authorization flow found"))
                      ELSE stderr,
                      exitCode, srv)

\* main, lines 270-274
GetKey ==
    /\ script = "authentik_api"
    /\ pc = "get_key"
    /\ \E o \in Failures \cup {Resp(200, TRUE, [results |-> srv.keys])} :
        LET r == _request(o)
            q == Append(reqs, Req("GET", "keys", None, o, FALSE))
            key == get_default_signing_key(r)
            se == IF key = None
                  THEN Append(stderr, Text("ERROR: No signing key found"))
                  ELSE stderr
        IN  IF r.raised THEN Crash(q)
            ELSE IF loc.flow_uuid = None \/ key = None
            THEN Move("done", [loc EXCEPT !.key_uuid = key], wait, q,
                      Append(stdout,
                             Json([error |-> "Failed to get required Authentik configuration"])),
                      se, 1, srv)
            ELSE Move("create_provider", [loc EXCEPT !.key_uuid = key], wait, q,
                      stdout, se, exitCode, srv)

HasName(seq, n) == \E i \in 1..Len(seq) : seq[i].name = n
HasSlug(seq, n) == \E i \in 1..Len(seq) : seq[i].slug = n

\* the service's answer to POST /api/v3/providers/oauth2/: names are unique
NewProvider(name) ==
    LET id == FreshId("p", srv.nextId)
    IN  [pk |-> id, name |-> name,
         client_id |-> "cid-" \o id, client_secret |-> "sec-" \o id]

\* the service's answer to POST /api/v3/core/applications/: slugs are unique
NewApplication(slug, provider) ==
    [pk |-> FreshId("a", srv.nextId), slug |-> slug, provider |-> provider]

\* create_oidc_provider handing back a provider under another pk than the one
\* the service answered with
create_oidc_provider_otherPk(r) ==
    IF r.status = 201 THEN [r.data EXCEPT !.pk = "p0"] ELSE NoneRec

\* create_oidc_provider, lines 182-189: the provider, or None
create_oidc_provider(r) == IF r.status = 201 THEN r.data ELSE NoneRec

\* create_application, lines 203-210: the application, or None
create_application(r) == IF r.status = 201 THEN r.data ELSE NoneRec

\* main, lines 277-280
CreateProvider ==
    /\ script = "authentik_api"
    /\ pc = "create_provider"
    /\ LET existed == HasName(srv.providers, argv.app_name)
           served == IF existed THEN Resp(400, TRUE, ErrBody)
                     ELSE Resp(201, TRUE, NewProvider(argv.app_name))
       IN \E o \in Failures \cup {served} :
            LET r == _request(o)
                q == Append(reqs, Req("POST", "providers", argv.app_name,
                                      o, existed))
                s == IF o = served /\ ~existed
                     THEN [srv EXCEPT !.providers = Append(@, o.data),
                                      !.nextId = @ + 1]
                     ELSE srv
                provider == create_oidc_provider(r)
                se == Append(stderr, Text("Creating OIDC provider"))
            IN  IF r.raised THEN CrashAfter(q, se)
                ELSE IF provider.pk = None
                THEN Move("done", loc, wait, q,
                          Append(stdout, Json([error |-> "Failed to create OIDC provider"])),
                          Append(se, Text("ERROR: Failed to create OIDC provider")),
                          1, s)
                ELSE Move("create_application", [loc EXCEPT !.provider = provider],
                          wait, q, stdout, Append(se, Text("OIDC provider created")),
                          exitCode, s)

\* AuthentikResult with the URIs built from the application name, not the slug
AuthentikResult_fromName(provider, application) ==
    [success |-> TRUE,
     provider_id |-> provider.pk,
     application_id |-> application.pk,
     client_id |-> provider.client_id,
     client_secret |-> provider.client_secret,
     discovery_uri |-> argv.domain \o "/application/o/" \o Lower(argv.app_name)
                       \o "/.well-known/openid-configuration",
     issuer |-> argv.domain \o "/application/o/" \o Lower(argv.app_name) \o "/"]

\* main, lines 289-297: the credentials printed on success
AuthentikResult(provider, application) ==
    [success |-> TRUE,
     provider_id |-> provider.pk,
     application_id |-> application.pk,
     client_id |-> provider.client_id,
     client_secret |-> provider.client_secret,
     discovery_uri |-> argv.domain \o "/application/o/" \o AppSlug
                       \o "/.well-known/openid-configuration",
     issuer |-> argv.domain \o "/application/o/" \o AppSlug \o "/"]

\* main, lines 283-299
CreateApplication ==
    /\ script = "authentik_api"
    /\ pc = "create_application"
    /\ LET existed == HasSlug(srv.applications, AppSlug)
           served == IF existed THEN Resp(400, TRUE, ErrBody)
                     ELSE Resp(201, TRUE, NewApplication(AppSlug, loc.provider.pk))
       IN \E o \in Failures \cup {served} :
            LET r == _request(o)
                q == Append(reqs, Req("POST", "applications", loc.provider.pk,
                                      o, existed))
                s == IF o = served /\ ~existed
                     THEN [srv EXCEPT !.applications = Append(@, o.data),
                                      !.nextId = @ + 1]
                     ELSE srv
                application == create_application(r)
                se == Append(stderr, Text("Creating application"))
            IN  IF r.raised THEN CrashAfter(q, se)
                ELSE IF application.pk = None
                THEN Move("done", loc, wait, q,
                          Append(stdout, Json([error |-> "Failed to create application"])),
                          Append(se, Text("ERROR: Failed to create application")),
                          1, s)
                ELSE Move("done", [loc EXCEPT !.application = application], wait, q,
                          Append(stdout, Json(AuthentikResult(loc.provider, application))),
                          Append(se, Text("Application created")),
                          0, s)

----------------------------------------------------------------------------
(* api_request of the configure_*.py scripts *)

\* api_request, lines 22-31: only HTTPError is caught
api_request(o) ==
    IF o.kind = "http" /\ o.status \in 200..299
    THEN IF o.json THEN Ret(o.status, o.data) ELSE Raise("JSONDecodeError")
    ELSE IF o.kind = "http"
    THEN Ret(o.status, IF o.json THEN o.data ELSE [error |-> o.data.raw])
    ELSE Raise(o.kind)

\* print(json.dumps({'error': ..., 'details': ...}), file=sys.stderr); sys.exit(1)
FailStderr(q, msg, details, s) ==
    Move("done", loc, wait, q, stdout,
         Append(stderr, Json([error |-> msg, details |-> details])), 1, s)

\* print(json.dumps({'error': ...}), file=sys.stderr); sys.exit(1)
FailStderrPlain(q, msg, s) ==
    Move("done", loc, wait, q, stdout, Append(stderr, Json([error |-> msg])), 1, s)

IsEnrollment(f) == f.designation = "enrollment"
IsRecovery(f) == f.designation = "recovery"

----------------------------------------------------------------------------
(* configure_invitation_flow.py *)

InvitationStageName == "default-enrollment-invitation"

InvitationStage == [pk |-> "s1", name |-> InvitationStageName]
OtherInvitationStage == [pk |-> "s2", name |-> "partner-invitation"]

\* bindings the enrollment flow may start with
PromptBinding == [pk |-> "b1", target |-> "f3", stage |-> "s8", order |-> 10]
FirstBinding == [pk |-> "b2", target |-> "f3", stage |-> "s9", order |-> 0]
InvitationBinding == [pk |-> "b3", target |-> "f3", stage |-> "s1", order |-> 0]

InvitationLoc ==
    [flow_slug |-> None, flow_pk |-> None, invitation_stage |-> NoneRec,
     stage_pk |-> None, invitation_binding |-> NoneRec]

InitInvitation ==
    /\ script = "configure_invitation_flow"
    /\ argv = [base_url |-> "https://auth", token |-> TRUE]
    /\ pc = "inv_list_flows"
    /\ loc = InvitationLoc
    /\ \E fl \in Listings({EnrollmentFlow, RecoveryFlow}),
          st \in Listings({InvitationStage, OtherInvitationStage}),
          bs \in Listings({PromptBinding, FirstBinding, InvitationBinding}) :
            /\ HasName(st, InvitationStageName)
                \/ \A i \in 1..Len(bs) : bs[i] # InvitationBinding
            /\ srv = [NoSrv EXCEPT !.flows = fl, !.invStages = st, !.bindings = bs]

\* main, lines 106-112
InvitationResult(flow_slug, stage_pk) ==
    [success |-> TRUE, message |-> "Invitation flow configured",
     flow_slug |-> flow_slug, stage_pk |-> stage_pk,
     note |-> "Invitation stage bound to enrollment flow"]

\* main, lines 41-55
InvListFlows ==
    /\ script = "configure_invitation_flow"
    /\ pc = "inv_list_flows"
    /\ \E o \in Failures \cup {Resp(200, TRUE, [results |-> srv.flows])} :
        LET r == api_request(o)
            q == Append(reqs, Req("GET", "flows", None, o, FALSE))
            res == Get(r.data, "results", <<>>)
            i == FirstIdx(res, IsEnrollment)
        IN  IF r.raised THEN Crash(q)
            ELSE IF r.status # 200
            THEN FailStderr(q, "Failed to list flows", r.data, srv)
            ELSE IF i = 0
            THEN FailStderrPlain(q, "No enrollment flow found", srv)
            ELSE Move("inv_list_stages",
                      [loc EXCEPT !.flow_slug = res[i].slug, !.flow_pk = res[i].pk],
                      wait, q, stdout, stderr, exitCode, srv)

\* IsInvitationStage looking for the stage under a differently spelled name
IsInvitationStage_otherName(st) == st.name = "default-invitation-enrollment"

\* IsInvitationStage comparing the stage's pk, not its name, with the target
IsInvitationStage_byPk(st) == st.pk = InvitationStageName

\* main, lines 63-64: the stage named default-enrollment-invitation
IsInvitationStage(st) == st.name = InvitationStageName

\* main, lines 57-64 and the test of line 67
InvListStages ==
    /\ script = "configure_invitation_flow"
    /\ pc = "inv_list_stages"
    /\ \E o \in Failures \cup {Resp(200, TRUE, [results |-> srv.invStages])} :
        LET r == api_request(o)
            q == Append(reqs, Req("GET", "stages/invitation", None, o, FALSE))
            res == Get(r.data, "results", <<>>)
            i == FirstIdx(res, IsInvitationStage)
        IN  IF r.raised THEN Crash(q)
            ELSE IF r.status # 200
            THEN FailStderr(q, "Failed to list invitation stages", r.data, srv)
            ELSE IF i = 0
            THEN Move("inv_create_stage", loc, wait, q, stdout, stderr, exitCode, srv)
            ELSE Move("inv_list_bindings",
                      [loc EXCEPT !.invitation_stage = res[i], !.stage_pk = res[i].pk],
                      wait, q, stdout, stderr, exitCode, srv)

\* main, lines 67-77
InvCreateStage ==
    /\ script = "configure_invitation_flow"
    /\ pc = "inv_create_stage"
    /\ LET existed == HasName(srv.invStages, InvitationStageName)
           created == [pk |-> FreshId("ns", srv.nextId), name |-> InvitationStageName]
           \* a service that carries the POST out; one that refuses it is
           \* among Failures
           served == Resp(201, TRUE, created)
       IN \E o \in Failures \cup {served} :
            LET r == api_request(o)
                q == Append(reqs, Req("POST", "stages/invitation", InvitationStageName,
                                      o, existed))
                s == IF o = served
                     THEN [srv EXCEPT !.invStages = Append(@, created), !.nextId = @ + 1]
                     ELSE srv
            IN  IF r.raised THEN Crash(q)
                ELSE IF r.status \notin {200, 201}
                THEN FailStderr(q, "Failed to create invitation stage", r.data, s)
                ELSE Move("inv_list_bindings",
                          [loc EXCEPT !.invitation_stage = r.data, !.stage_pk = r.data.pk],
                          wait, q, stdout, stderr, exitCode, s)

\* GET /api/v3/flows/bindings/?target=<flow_pk>: the bindings of that flow
BindingsOf(target) ==
    LET OfTarget(b) == b.target = target
    IN  SelectSeq(srv.bindings, OfTarget)

\* main, lines 79-90 and, when the binding exists, 106-112
InvListBindings ==
    /\ script = "configure_invitation_flow"
    /\ pc = "inv_list_bindings"
    /\ \E o \in Failures \cup {Resp(200, TRUE, [results |-> BindingsOf(loc.flow_pk)])} :
        LET r == api_request(o)
            q == Append(reqs, Req("GET", "bindings", loc.flow_pk, o, FALSE))
            res == Get(r.data, "results", <<>>)
            IsBound(b) == b.stage = loc.stage_pk
            i == FirstIdx(res, IsBound)
        IN  IF r.raised THEN Crash(q)
            ELSE IF r.status # 200
            THEN FailStderr(q, "Failed to list flow bindings", r.data, srv)
            ELSE IF i = 0
            THEN Move("inv_create_binding", loc, wait, q, stdout, stderr, exitCode, srv)
            ELSE Move("done", [loc EXCEPT !.invitation_binding = res[i]], wait, q,
                      Append(stdout, Json(InvitationResult(loc.flow_slug, loc.stage_pk))),
                      stderr, 0, srv)

\* main, lines 94-100: the binding the script asks for
binding_data(flow_pk, stage_pk) == [target |-> flow_pk, stage |-> stage_pk, order |-> 0]

\* main, lines 90-112
InvCreateBinding ==
    /\ script = "configure_invitation_flow"
    /\ pc = "inv_create_binding"
    /\ LET want == binding_data(loc.flow_pk, loc.stage_pk)
           existed == \E i \in 1..Len(srv.bindings) :
                         /\ srv.bindings[i].target = want.target
                         /\ srv.bindings[i].stage = want.stage
                         /\ srv.bindings[i].order = want.order
           created == [pk |-> FreshId("nb", srv.nextId), target |-> want.target,
                       stage |-> want.stage, order |-> want.order]
           \* a service that carries the POST out; one that refuses it is
           \* among Failures
           served == Resp(201, TRUE, created)
       IN \E o \in Failures \cup {served} :
            LET r == api_request(o)
                q == Append(reqs, Req("POST", "bindings", want.stage, o, existed))
                s == IF o = served
                     THEN [srv EXCEPT !.bindings = Append(@, created), !.nextId = @ + 1]
                     ELSE srv
            IN  IF r.raised THEN Crash(q)
                ELSE IF r.status \notin {200, 201}
                THEN FailStderr(q, "Failed to bind invitation stage to flow", r.data, s)
                ELSE Move("done", loc, wait, q,
                          Append(stdout, Json(InvitationResult(loc.flow_slug, loc.stage_pk))),
                          stderr, 0, s)

----------------------------------------------------------------------------
(* configure_2fa_enforcement.py *)

\* line 48: 'default-authentication-mfa-validation' in s.get('name', '').lower()
IsMfaValidation(st) ==
    Contains("default-authentication-mfa-validation", Lower(Get(st, "name", "")))

\* line 63: 'setup' in s.get('name', '').lower()
IsTotpSetup(st) == Contains("setup", Lower(Get(st, "name", "")))

MfaStages ==
    {[pk |-> "m1", name |-> "default-authentication-mfa-validation",
      not_configured_action |-> "skip", configuration_stages |-> <<>>],
     [pk |-> "m2", name |-> "webauthn-validation",
      not_configured_action |-> "skip", configuration_stages |-> <<>>],
     [pk |-> "m3", name |-> "My-Default-Authentication-MFA-Validation-2",
      not_configured_action |-> "skip", configuration_stages |-> <<>>]}

TotpStages ==
    {[pk |-> "t1", name |-> "default-authenticator-totp-setup"],
     [pk |-> "t2", name |-> "totp-legacy"],
     [pk |-> "t3", name |-> "TOTP SETUP"]}

TwoFaLoc == [mfa_stage |-> NoneRec, stage_pk |-> None, totp_setup_pk |-> None]

InitTwoFa ==
    /\ script = "configure_2fa_enforcement"
    /\ argv = [base_url |-> "https://auth", token |-> TRUE]
    /\ pc = "mfa_list_validate"
    /\ loc = TwoFaLoc
    /\ \E ms \in Listings(MfaStages), ts \in Listings(TotpStages) :
            srv = [NoSrv EXCEPT !.mfaStages = ms, !.totpStages = ts]

\* main, lines 41-54
MfaListValidate ==
    /\ script = "configure_2fa_enforcement"
    /\ pc = "mfa_list_validate"
    /\ \E o \in Failures \cup {Resp(200, TRUE, [results |-> srv.mfaStages])} :
        LET r == api_request(o)
            q == Append(reqs, Req("GET", "stages/authenticator/validate", None,
                                  o, FALSE))
            res == Get(r.data, "results", <<>>)
            i == FirstIdx(res, IsMfaValidation)
        IN  IF r.raised THEN Crash(q)
            ELSE IF r.status # 200
            THEN FailStderr(q, "Failed to list authenticator validate stages", r.data, srv)
            ELSE IF i = 0
            THEN FailStderrPlain(q, "default-authentication-mfa-validation stage not found",
                                 srv)
            ELSE Move("mfa_list_totp",
                      [loc EXCEPT !.mfa_stage = res[i], !.stage_pk = res[i].pk],
                      wait, q, stdout, stderr, exitCode, srv)

\* main, lines 56-69
MfaListTotp ==
    /\ script = "configure_2fa_enforcement"
    /\ pc = "mfa_list_totp"
    /\ \E o \in Failures \cup {Resp(200, TRUE, [results |-> srv.totpStages])} :
        LET r == api_request(o)
            q == Append(reqs, Req("GET", "stages/authenticator/totp", None,
                                  o, FALSE))
            res == Get(r.data, "results", <<>>)
            i == FirstIdx(res, IsTotpSetup)
        IN  IF r.raised THEN Crash(q)
            ELSE IF r.status # 200
            THEN FailStderr(q, "Failed to list TOTP setup stages", r.data, srv)
            ELSE IF i = 0
            THEN FailStderrPlain(q, "TOTP setup stage not found", srv)
            ELSE Move("mfa_patch", [loc EXCEPT !.totp_setup_pk = res[i].pk],
                      wait, q, stdout, stderr, exitCode, srv)

\* update_data that leaves the list of configuration stages empty
update_data_noStages(mfa_stage, totp_setup_pk) ==
    [name |-> mfa_stage.name, not_configured_action |-> "configure",
     configuration_stages |-> <<>>]

\* main, lines 72-76: the update the script asks for
update_data(mfa_stage, totp_setup_pk) ==
    [name |-> mfa_stage.name, not_configured_action |-> "configure",
     configuration_stages |-> <<totp_setup_pk>>]

\* the service applies a PATCH of a validation stage
Patched(stages, pk, upd) ==
    [i \in 1..Len(stages) |->
        IF stages[i].pk = pk
        THEN [stages[i] EXCEPT !.name = upd.name,
                               !.not_configured_action = upd.not_configured_action,
                               !.configuration_stages = upd.configuration_stages]
        ELSE stages[i]]

\* main, lines 71-89
MfaPatch ==
    /\ script = "configure_2fa_enforcement"
    /\ pc = "mfa_patch"
    /\ LET upd == update_data(loc.mfa_stage, loc.totp_setup_pk)
           after == Patched(srv.mfaStages, loc.stage_pk, upd)
           served == Resp(200, TRUE, [pk |-> loc.stage_pk, name |-> upd.name])
       IN \E o \in Failures \cup {served} :
            LET r == api_request(o)
                q == Append(reqs, Req("PATCH", "stages/authenticator/validate",
                                      [pk |-> loc.stage_pk, data |-> upd], o, TRUE))
                s == IF o = served THEN [srv EXCEPT !.mfaStages = after] ELSE srv
            IN  IF r.raised THEN Crash(q)
                ELSE IF r.status \notin {200, 201}
                THEN FailStderr(q, "Failed to update MFA validation stage", r.data, s)
                ELSE Move("done", loc, wait, q,
                          Append(stdout,
                                 Json([success |-> TRUE,
                                       message |-> "2FA enforcement configured",
                                       stage_name |-> loc.mfa_stage.name,
                                       stage_pk |-> loc.stage_pk,
                                       note |-> "Users will be forced to configure TOTP"])),
                          stderr, 0, s)

----------------------------------------------------------------------------
(* configure_recovery_flow.py *)

InitRecovery ==
    /\ script = "configure_recovery_flow"
    /\ argv = [base_url |-> "https://auth", token |-> TRUE]
    /\ pc = "rec_list_flows"
    /\ loc = [flow_slug |-> None, flow_pk |-> None]
    /\ \E fl \in Listings({EnrollmentFlow, RecoveryFlow, DefaultAuthFlow}) :
            srv = [NoSrv EXCEPT !.flows = fl]

\* main, lines 42-64
RecListFlows ==
    /\ script = "configure_recovery_flow"
    /\ pc = "rec_list_flows"
    /\ \E o \in Failures \cup {Resp(200, TRUE, [results |-> srv.flows])} :
        LET r == api_request(o)
            q == Append(reqs, Req("GET", "flows", None, o, FALSE))
            res == Get(r.data, "results", <<>>)
            i == FirstIdx(res, IsRecovery)
        IN  IF r.raised THEN Crash(q)
            ELSE IF r.status # 200
            THEN FailStderr(q, "Failed to list flows", r.data, srv)
            ELSE IF i = 0
            THEN FailStderrPlain(q, "No recovery flow found", srv)
            ELSE Move("done", [loc EXCEPT !.flow_slug = res[i].slug, !.flow_pk = res[i].pk],
                      wait, q,
                      Append(stdout,
                             Json([success |-> TRUE,
                                   message |-> "Recovery flow configured",
                                   flow_slug |-> res[i].slug, flow_pk |-> res[i].pk,
                                   note |-> "Using Authentik default recovery flow"])),
                      stderr, 0, srv)

----------------------------------------------------------------------------
(* create_recovery_flow.py *)

CreateRecoveryLoc == [existing_recovery |-> NoneRec]

InitCreateRecovery ==
    /\ script = "create_recovery_flow"
    /\ argv = [base_url |-> "https://auth", token |-> TRUE]
    /\ pc = "crf_list_flows"
    /\ loc = CreateRecoveryLoc
    \* f5 carries the slug the script looks for without being a recovery flow
    /\ \E fl \in Listings({EnrollmentFlow, RecoveryFlow,
                           [pk |-> "f5", slug |-> "recovery-flow",
                            designation |-> "stage_configuration"]}) :
            srv = [NoSrv EXCEPT !.flows = fl]

\* the test of the generator at lines 48-49
IsExistingRecovery(f) == f.slug = "recovery-flow" \/ f.designation = "recovery"

\* lines 48-49: the first flow that passes the test; NoneRec stands for the
\* None of next(..., None)
existing_recovery(flows) ==
    LET res == Get(flows, "results", <<>>)
        hits == {i \in 1..Len(res) : IsExistingRecovery(res[i])}
    IN  IF hits = {} THEN NoneRec
        ELSE res[CHOOSE i \in hits : \A j \in hits : i <= j]

\* main, lines 41-67; falling off the end of main is exit status 0
CrfListFlows ==
    /\ script = "create_recovery_flow"
    /\ pc = "crf_list_flows"
    /\ \E o \in Failures \cup {Resp(200, TRUE, [results |-> srv.flows])} :
        LET r == api_request(o)
            q == Append(reqs, Req("GET", "flows", None, o, FALSE))
            found == existing_recovery(r.data)
        IN  IF r.raised THEN Crash(q)
            ELSE IF r.status # 200
            THEN FailStderr(q, "Failed to list flows", r.data, srv)
            ELSE IF found.pk # None
            THEN Move("done", [loc EXCEPT !.existing_recovery = found], wait, q,
                      Append(stdout,
                             Json([success |-> TRUE,
                                   message |-> "Recovery flow already exists",
                                   flow_id |-> found.pk, flow_slug |-> found.slug])),
                      stderr, 0, srv)
            ELSE Move("done", loc, wait, q,
                      Append(stdout,
                             Json([success |-> TRUE,
                                   message |-> "No recovery flow found - will use default Authentik flow after manual setup",
                                   note |-> "Admin should configure recovery flow in Authentik UI: Flows & Stages"])),
                      stderr, 0, srv)

----------------------------------------------------------------------------
(* scripts/test-oidc-provider.py: the provider and the application named
   Nextcloud are deleted when they exist, and created again *)

\* req, lines 9-26: only HTTPError is caught; every body of a 2xx answer is
\* parsed, the empty body of a 204 included; the body of an error answer is
\* parsed when its Content-Type header starts with application/json
\* (json_header), whatever the body holds, and wrapped as text otherwise
req(o, json_header) ==
    LET RECURSIVE Members(_)
        \* the members of a JSON object whose values are strings
        Members(ks) ==
            IF ks = {} THEN ""
            ELSE LET k == CHOOSE k \in ks : TRUE
                 IN  "\"" \o k \o "\": \"" \o o.data[k] \o "\""
                     \o (IF ks \ {k} = {} THEN "" ELSE ", ") \o Members(ks \ {k})
        \* e.read().decode(): the body as the service sent it
        text == IF o.json THEN "{" \o Members(DOMAIN o.data) \o "}" ELSE o.data.raw
    IN  IF o.kind = "http" /\ o.status \in 200..299
        THEN IF o.json THEN Ret(o.status, o.data) ELSE Raise("JSONDecodeError")
        ELSE IF o.kind = "http"
        THEN IF json_header
             THEN IF o.json THEN Ret(o.status, o.data) ELSE Raise("JSONDecodeError")
             ELSE Ret(o.status, [error |-> text])
        ELSE Raise(o.kind)

TestLoc ==
    [providers |-> <<>>, auth_flow |-> None, inval_flow |-> None, key |-> None,
     prov |-> NoneRec, apps |-> <<>>, cursor |-> 0]

InitTestProvider ==
    /\ script = "test_oidc_provider"
    /\ argv = [base_url |-> "https://auth.test.vrije.cloud", token |-> TRUE]
    /\ pc = "top_list_providers"
    /\ loc = TestLoc
    /\ \E fl \in Listings({DefaultAuthFlow, EnrollmentFlow}), ks \in Listings({"k1"}),
          hasProvider \in BOOLEAN, hasApp \in BOOLEAN :
            srv = [NoSrv EXCEPT
                     !.flows = fl, !.keys = ks,
                     !.providers =
                         IF hasProvider
                         THEN <<[pk |-> "p0", name |-> "Nextcloud",
                                 client_id |-> "cid-p0", client_secret |-> "sec-p0"]>>
                         ELSE <<>>,
                     !.applications =
                         IF hasApp
                         THEN <<[pk |-> "a0", slug |-> "nextcloud",
                                 provider |-> IF hasProvider THEN "p0" ELSE None]>>
                         ELSE <<>>]

\* print(...): everything goes to standard output
Say(so, t) == Append(so, Text(t))

\* an exception at module level: traceback on standard error, exit status 1
TestCrash(q, so, s) ==
    Move("done", loc, wait, q, so, Append(stderr, Text("Traceback")), 1, s)

\* lines 28-35: the providers are listed (the status is not looked at); the
\* loop prints one line for each provider up to the first named Nextcloud
TopListProviders ==
    /\ script = "test_oidc_provider"
    /\ pc = "top_list_providers"
    /\ \E o \in Failures \cup {Resp(200, TRUE, [results |-> srv.providers])},
          json_header \in BOOLEAN :
        LET r == req(o, json_header)
            q == Append(reqs, Req("GET", "providers", None, o, FALSE))
            so == Say(stdout, "Checking for existing providers...")
            res == Get(r.data, "results", <<>>)
            hits == {n \in 1..Len(res) : res[n].name = "Nextcloud"}
            first == IF hits = {} THEN 0 ELSE CHOOSE n \in hits : \A m \in hits : n <= m
            seen == IF hits = {} THEN Len(res) ELSE first
        IN  IF r.raised THEN TestCrash(q, so, srv)
            ELSE Move(IF hits = {} THEN "top_get_flows" ELSE "top_delete_provider",
                      [loc EXCEPT !.providers = res, !.cursor = first], wait, q,
                      Say(so, "Found providers") \o [k \in 1..seen |-> Text("  - provider")],
                      stderr, exitCode, srv)

\* lines 33-38: one pass of the loop at a provider named Nextcloud: it is
\* deleted (the service answers a DELETE it carried out with 204 and no body)
\* and the loop goes on to the next provider of that name in the listing
TopDeleteProvider ==
    /\ script = "test_oidc_provider"
    /\ pc = "top_delete_provider"
    /\ LET pk == loc.providers[loc.cursor].pk
           existed == \E n \in 1..Len(srv.providers) : srv.providers[n].pk = pk
           served == IF existed THEN Resp(204, FALSE, [raw |-> ""])
                     ELSE Resp(404, TRUE, ErrBody)
           Other(p) == p.pk # pk
           \* the service without the provider: its applications lose theirs
           without ==
               [srv EXCEPT
                  !.providers = SelectSeq(@, Other),
                  !.applications =
                      [n \in DOMAIN @ |->
                          IF @[n].provider = pk THEN [@[n] EXCEPT !.provider = None]
                          ELSE @[n]]]
           later == {n \in (loc.cursor + 1)..Len(loc.providers) :
                        loc.providers[n].name = "Nextcloud"}
           next == IF later = {} THEN 0 ELSE CHOOSE n \in later : \A m \in later : n <= m
           seen == (IF later = {} THEN Len(loc.providers) ELSE next) - loc.cursor
       IN \E o \in Failures \cup {served}, json_header \in BOOLEAN :
            LET r == req(o, json_header)
                q == Append(reqs, Req("DELETE", "providers", pk, o, existed))
                s == IF o = served /\ existed THEN without ELSE srv
                so == Say(stdout, "Deleting existing Nextcloud provider...")
            IN  IF r.raised THEN TestCrash(q, so, s)
                ELSE Move(IF later = {} THEN "top_get_flows" ELSE pc,
                          [loc EXCEPT !.cursor = next], wait, q,
                          Say(so, "Delete status") \o [k \in 1..seen |-> Text("  - provider")],
                          stderr, exitCode, s)

\* line 43 / line 44: the first flow with the slug or the designation
first_flow(res, slug, designation) ==
    LET hits == {n \in 1..Len(res) :
                    res[n].slug = slug \/ res[n].designation = designation}
    IN  IF hits = {} THEN None
        ELSE res[CHOOSE n \in hits : \A m \in hits : n <= m].pk

\* lines 40-45: the flows are listed
TopGetFlows ==
    /\ script = "test_oidc_provider"
    /\ pc = "top_get_flows"
    /\ \E o \in Failures \cup {Resp(200, TRUE, [results |-> srv.flows])},
          json_header \in BOOLEAN :
        LET r == req(o, json_header)
            q == Append(reqs, Req("GET", "flows", None, o, FALSE))
            so == Say(stdout, "Getting flows...")
            res == Get(r.data, "results", <<>>)
        IN  IF r.raised THEN TestCrash(q, so, srv)
            ELSE Move("top_get_keys",
                      [loc EXCEPT
                         !.auth_flow = first_flow(res, "default-authorization-flow",
                                                  "authorization"),
                         !.inval_flow = first_flow(res, "default-invalidation-flow",
                                                   "invalidation")],
                      wait, q, Say(so, "Auth flow, Invalidation flow"),
                      stderr, exitCode, srv)

\* lines 47-55: the signing keys are listed; without flow or key the run ends
TopGetKeys ==
    /\ script = "test_oidc_provider"
    /\ pc = "top_get_keys"
    /\ \E o \in Failures \cup {Resp(200, TRUE, [results |-> srv.keys])},
          json_header \in BOOLEAN :
        LET r == req(o, json_header)
            q == Append(reqs, Req("GET", "keys", None, o, FALSE))
            so == Say(stdout, "Getting signing keys...")
            res == Get(r.data, "results", <<>>)
            key == IF Len(res) > 0 THEN res[1] ELSE None
        IN  IF r.raised THEN TestCrash(q, so, srv)
            ELSE IF loc.auth_flow = None \/ key = None
            THEN Move("done", loc, wait, q,
                      Say(Say(so, "Signing key"),
                                 "ERROR: Missing required configuration"),
                      stderr, 1, srv)
            ELSE Move("top_create_provider", [loc EXCEPT !.key = key], wait, q,
                      Say(so, "Signing key"), stderr, exitCode, srv)

\* lines 57-83: the provider is created
TopCreateProvider ==
    /\ script = "test_oidc_provider"
    /\ pc = "top_create_provider"
    /\ LET existed == HasName(srv.providers, "Nextcloud")
           served == IF existed THEN Resp(400, TRUE, ErrBody)
                     ELSE Resp(201, TRUE, NewProvider("Nextcloud"))
       IN \E o \in Failures \cup {served}, json_header \in BOOLEAN :
            LET r == req(o, json_header)
                q == Append(reqs, Req("POST", "providers", "Nextcloud", o, existed))
                s == IF o = served /\ ~existed
                     THEN [srv EXCEPT !.providers = Append(@, o.data), !.nextId = @ + 1]
                     ELSE srv
                so == Say(Say(stdout, "Creating new OIDC provider..."), "Provider data")
                answered == Say(Say(so, "Create provider status"), "Response")
            IN  IF r.raised THEN TestCrash(q, so, s)
                ELSE IF r.status # 201
                THEN Move("done", loc, wait, q, Say(answered, "ERROR: Failed to create provider"),
                      stderr, 1, s)
                ELSE Move("top_list_apps", [loc EXCEPT !.prov = r.data], wait, q,
                          answered, stderr, exitCode, s)

\* lines 85-89: the applications are listed (the status is not looked at)
TopListApps ==
    /\ script = "test_oidc_provider"
    /\ pc = "top_list_apps"
    /\ \E o \in Failures \cup {Resp(200, TRUE, [results |-> srv.applications])},
          json_header \in BOOLEAN :
        LET r == req(o, json_header)
            q == Append(reqs, Req("GET", "applications", None, o, FALSE))
            so == Say(stdout, "Checking for existing applications...")
            res == Get(r.data, "results", <<>>)
            hits == {n \in 1..Len(res) : res[n].slug = "nextcloud"}
            first == IF hits = {} THEN 0 ELSE CHOOSE n \in hits : \A m \in hits : n <= m
        IN  IF r.raised THEN TestCrash(q, so, srv)
            ELSE Move(IF hits = {} THEN "top_create_app" ELSE "top_delete_app",
                      [loc EXCEPT !.apps = res, !.cursor = first], wait, q, so,
                      stderr, exitCode, srv)

\* lines 88-92: one pass of the loop at an application of slug nextcloud: it
\* is deleted by its slug, and the loop goes on to the next listed
\* application of that slug
TopDeleteApp ==
    /\ script = "test_oidc_provider"
    /\ pc = "top_delete_app"
    /\ LET slug == loc.apps[loc.cursor].slug
           existed == HasSlug(srv.applications, slug)
           served == IF existed THEN Resp(204, FALSE, [raw |-> ""])
                     ELSE Resp(404, TRUE, ErrBody)
           Other(a) == a.slug # slug
           later == {n \in (loc.cursor + 1)..Len(loc.apps) : loc.apps[n].slug = "nextcloud"}
           next == IF later = {} THEN 0 ELSE CHOOSE n \in later : \A m \in later : n <= m
       IN \E o \in Failures \cup {served}, json_header \in BOOLEAN :
            LET r == req(o, json_header)
                q == Append(reqs, Req("DELETE", "applications", slug, o, existed))
                s == IF o = served /\ existed
                     THEN [srv EXCEPT !.applications = SelectSeq(@, Other)]
                     ELSE srv
                so == Say(stdout, "Deleting existing Nextcloud application...")
            IN  IF r.raised THEN TestCrash(q, so, s)
                ELSE Move(IF later = {} THEN "top_create_app" ELSE pc,
                          [loc EXCEPT !.cursor = next], wait, q, Say(so, "Delete status"),
                          stderr, exitCode, s)

\* lines 94-125: the application is created and the credentials are printed
TopCreateApp ==
    /\ script = "test_oidc_provider"
    /\ pc = "top_create_app"
    /\ LET existed == HasSlug(srv.applications, "nextcloud")
           served == IF existed THEN Resp(400, TRUE, ErrBody)
                     ELSE Resp(201, TRUE, NewApplication("nextcloud", loc.prov.pk))
       IN \E o \in Failures \cup {served}, json_header \in BOOLEAN :
            LET r == req(o, json_header)
                q == Append(reqs, Req("POST", "applications", loc.prov.pk, o, existed))
                s == IF o = served /\ ~existed
                     THEN [srv EXCEPT !.applications = Append(@, o.data),
                                      !.nextId = @ + 1]
                     ELSE srv
                so == Say(stdout, "Creating application...")
                answered == Say(so, "Create application status")
            IN  IF r.raised THEN TestCrash(q, so, s)
                ELSE IF r.status # 201
                THEN Move("done", loc, wait, q,
                      Say(Say(answered, "ERROR: Failed to create application"),
                                     "Response"),
                      stderr, 1, s)
                ELSE Move("done", loc, wait, q,
                          Append(Say(answered, "SUCCESS!"), Json([success |-> TRUE,
                                       provider_id |-> loc.prov.pk,
                                       application_id |-> r.data.pk,
                                       client_id |-> loc.prov.client_id,
                                       client_secret |-> loc.prov.client_secret,
                                       discovery_uri |->
                                           "https://auth.test.vrije.cloud/application/o/nextcloud/.well-known/openid-configuration",
                                       issuer |->
                                           "https://auth.test.vrije.cloud/application/o/nextcloud/"])),
                          stderr, 0, s)

----------------------------------------------------------------------------
(* The Zitadel scripts: requests.post *)

\* requests.post: any HTTP status comes back as a response; no response raises
requests_post(o) ==
    IF o.kind = "http"
    THEN [raised |-> FALSE, status |-> o.status, json |-> o.json, data |-> o.data]
    ELSE [raised |-> TRUE, status |-> -1, json |-> FALSE, data |-> [exc |-> o.kind]]

ProjectName == "SSO Applications"
ServiceUserName == "api-automation"

SsoProject == [id |-> "pr1", name |-> ProjectName]
DefaultProject == [id |-> "pr0", name |-> "ZITADEL"]

ServiceUser == [id |-> "u1", userName |-> ServiceUserName]
AdminUser == [id |-> "u0", userName |-> "admin"]

HasId(seq, id) == \E i \in 1..Len(seq) : seq[i].id = id

\* the projects and the apps a Zitadel instance may start with
ZitadelStart(s) ==
    \E ps \in Listings({SsoProject, DefaultProject}),
       as \in Listings({[id |-> "ap1", name |-> "Nextcloud", project |-> "pr1"],
                        [id |-> "ap2", name |-> "Wiki", project |-> "pr1"],
                        [id |-> "ap3", name |-> "Nextcloud", project |-> "pr0"]}) :
        /\ \A i \in 1..Len(as) : HasId(ps, as[i].project)
        /\ s = [NoSrv EXCEPT !.projects = ps, !.apps = as]

\* an exception caught by main's "except Exception": print(f"Error: {e}",
\* file=sys.stderr); sys.exit(1)
ErrorExit(q, msg, s) ==
    Move("done", loc, wait, q, stdout, Append(stderr, Text("Error: " \o msg)), 1, s)

\* POST /management/v1/projects: project names are unique
ServedCreateProject ==
    IF HasName(srv.projects, ProjectName)
    THEN Resp(409, TRUE, ErrBody)
    ELSE Resp(200, TRUE, [id |-> FreshId("npr", srv.nextId)])

AfterCreateProject(o) ==
    IF o = ServedCreateProject /\ o.status = 200
    THEN [srv EXCEPT !.projects = Append(@, [id |-> o.data.id, name |-> ProjectName]),
                     !.nextId = @ + 1]
    ELSE srv

\* POST /management/v1/projects/_search
ServedSearchProjects == Resp(200, TRUE, [result |-> srv.projects])

AppsOf(project_id) ==
    LET InProject(a) == a.project = project_id
    IN  SelectSeq(srv.apps, InProject)

\* POST /management/v1/projects/{project_id}/apps/oidc: no such project is 404,
\* app names are unique within a project
ServedCreateApp(project_id, app_name) ==
    IF ~HasId(srv.projects, project_id) THEN Resp(404, TRUE, ErrBody)
    ELSE IF HasName(AppsOf(project_id), app_name) THEN Resp(409, TRUE, ErrBody)
    ELSE LET id == FreshId("nap", srv.nextId)
         IN  Resp(200, TRUE, [appId |-> id, clientId |-> "cid-" \o id,
                              clientSecret |-> "sec-" \o id])

AfterCreateApp(o, project_id, app_name) ==
    IF o = ServedCreateApp(project_id, app_name) /\ o.status = 200
    THEN [srv EXCEPT !.apps = Append(@, [id |-> o.data.appId, name |-> app_name,
                                         project |-> project_id]),
                     !.nextId = @ + 1]
    ELSE srv

IsSsoProject(pr) == pr.name = ProjectName

\* find_project that returns the first project listed, whatever its name
find_project_first(resp) ==
    IF resp.status = 200
    THEN IF ~resp.json THEN "raise"
         ELSE LET res == Get(resp.data, "result", <<>>)
              IN  IF Len(res) > 0 THEN res[1].id ELSE None
    ELSE None

\* find_project (zitadel_api.py lines 83-98, setup_automation.py lines 44-55):
\* the id of the project of that name, or None; json() raises on a body that
\* is no JSON
find_project(resp) ==
    IF resp.status = 200
    THEN IF ~resp.json THEN "raise"
         ELSE LET res == Get(resp.data, "result", <<>>)
                  i == FirstIdx(res, IsSsoProject)
              IN  IF i > 0 THEN res[i].id ELSE None
    ELSE None

\* CreatedOutput that leaves the client secret out
CreatedOutput_noSecret(result) ==
    [status |-> "created",
     app_id |-> Get(result, "appId", None),
     client_id |-> Get(result, "clientId", None),
     redirect_uri |-> argv.redirect_uri]

\* main, lines 166-172 of zitadel_api.py and 153-159 of create_oidc_app.py
CreatedOutput(result) ==
    [status |-> "created",
     app_id |-> Get(result, "appId", None),
     client_id |-> Get(result, "clientId", None),
     client_secret |-> Get(result, "clientSecret", None),
     redirect_uri |-> argv.redirect_uri]

----------------------------------------------------------------------------
(* zitadel_api.py *)

ZitadelApiLoc == [access_token |-> None, project_id |-> None]

\* seconds between iat and exp of the assertion
AssertionLifetime == 3600

\* ZitadelAPI.__init__, lines 18-29
ZitadelAPI(domain, jwt_key) ==
    [domain |-> domain, base_url |-> "https://" \o domain,
     user_id |-> jwt_key.userId, key_id |-> jwt_key.keyId]

\* Assertion with the base URL, not the domain, as audience
Assertion_audUrl(api, now) ==
    [headers |-> [alg |-> "RS256", kid |-> api.key_id],
     payload |-> [iss |-> api.user_id, sub |-> api.user_id, aud |-> api.base_url,
                  iat |-> now, exp |-> now + AssertionLifetime]]

\* get_access_token, lines 33-48: the JWT assertion before it is signed
Assertion(api, now) ==
    [headers |-> [alg |-> "RS256", kid |-> api.key_id],
     payload |-> [iss |-> api.user_id, sub |-> api.user_id, aud |-> api.domain,
                  iat |-> now, exp |-> now + AssertionLifetime]]

\* get_access_token that answers with a token of its own
get_access_token_fixed(resp) == "at0"

\* get_access_token, lines 58-60: the token of a 200 response
get_access_token(resp) == Get(resp.data, "access_token", None)

InitZitadelApi ==
    /\ script = "zitadel_api"
    \* key files of a service user, as Zitadel issues them (userId, keyId; the
    \* private key itself plays no part)
    /\ \E key \in {[userId |-> "u1", keyId |-> "k0"], [userId |-> "u7", keyId |-> "k9"]} :
        argv = [domain |-> "zitadel", jwt_key |-> key, app_name |-> "Nextcloud",
                redirect_uri |-> "https://nc/apps/user_oidc/code"]
    /\ pc = "za_token"
    /\ loc = ZitadelApiLoc
    /\ ZitadelStart(srv)

\* main, lines 154-157, and get_access_token, lines 31-62
ZaToken ==
    /\ script = "zitadel_api"
    /\ pc = "za_token"
    /\ \E now \in {1000, 1700000000},
          o \in Failures \cup {Resp(200, TRUE, [access_token |-> t]) : t \in {"at1", "at2"}} :
        LET api == ZitadelAPI(argv.domain, argv.jwt_key)
            resp == requests_post(o)
            q == Append(reqs, Req("POST", "oauth/v2/token", Assertion(api, now),
                                  o, FALSE))
        IN  IF resp.raised THEN ErrorExit(q, "ConnectionError", srv)
            ELSE IF resp.status # 200 THEN ErrorExit(q, "Failed to get access token", srv)
            ELSE IF ~resp.json THEN ErrorExit(q, "JSONDecodeError", srv)
            ELSE Move("za_create_project",
                      [loc EXCEPT !.access_token = get_access_token(resp)],
                      wait, q, stdout, stderr, exitCode, srv)

\* create_project, lines 64-81, called by main line 160
ZaCreateProject ==
    /\ script = "zitadel_api"
    /\ pc = "za_create_project"
    /\ \E o \in Failures \cup {ServedCreateProject} :
        LET resp == requests_post(o)
            q == Append(reqs, Req("POST", "projects", ProjectName, o,
                                  HasName(srv.projects, ProjectName)))
            s == AfterCreateProject(o)
        IN  IF resp.raised THEN ErrorExit(q, "ConnectionError", s)
            ELSE IF resp.status \in {200, 201}
            THEN IF ~resp.json THEN ErrorExit(q, "JSONDecodeError", s)
                 ELSE Move("za_create_app",
                           [loc EXCEPT !.project_id = Get(resp.data, "id", None)],
                           wait, q, stdout, stderr, exitCode, s)
            ELSE IF resp.status = 409
            THEN Move("za_find_project", loc, wait, q, stdout, stderr, exitCode, s)
            ELSE ErrorExit(q, "Failed to create project", s)

\* find_project, lines 83-98, called from create_project line 79
ZaFindProject ==
    /\ script = "zitadel_api"
    /\ pc = "za_find_project"
    /\ \E o \in Failures \cup {ServedSearchProjects} :
        LET resp == requests_post(o)
            q == Append(reqs, Req("POST", "projects/_search", ProjectName,
                                  o, FALSE))
            found == find_project(resp)
        IN  IF resp.raised THEN ErrorExit(q, "ConnectionError", srv)
            ELSE IF found = "raise" THEN ErrorExit(q, "JSONDecodeError", srv)
            ELSE Move("za_create_app", [loc EXCEPT !.project_id = found],
                      wait, q, stdout, stderr, exitCode, srv)

\* create_oidc_app, lines 134-139, and main, lines 163-178
ZaCreateApp ==
    /\ script = "zitadel_api"
    /\ pc = "za_create_app"
    /\ \E o \in Failures \cup {ServedCreateApp(loc.project_id, argv.app_name)} :
        LET resp == requests_post(o)
            q == Append(reqs, Req("POST", "apps/oidc", loc.project_id, o,
                                  HasName(AppsOf(loc.project_id), argv.app_name)))
            s == AfterCreateApp(o, loc.project_id, argv.app_name)
        IN  IF resp.raised THEN ErrorExit(q, "ConnectionError", s)
            ELSE IF resp.status \in {200, 201}
            THEN IF ~resp.json THEN ErrorExit(q, "JSONDecodeError", s)
                 ELSE Move("done", loc, wait, q,
                           Append(stdout, Json(CreatedOutput(resp.data))),
                           stderr, 0, s)
            ELSE ErrorExit(q, "Failed to create OIDC app", s)

----------------------------------------------------------------------------
(* create_oidc_app.py *)

OidcAppLoc == [project_id |-> None, existing_app |-> [id |-> None]]

InitOidcApp ==
    /\ script = "create_oidc_app"
    /\ argv = [domain |-> "zitadel", app_name |-> "Nextcloud",
               redirect_uri |-> "https://nc/apps/user_oidc/code"]
    /\ pc = "oa_search_projects"
    /\ loc = OidcAppLoc
    /\ ZitadelStart(srv)

\* get_or_create_project that creates a project whenever none has the name
get_or_create_project_strict(resp) ==
    IF resp.status = 200
    THEN IF ~resp.json THEN "raise"
         ELSE LET projects == Get(resp.data, "result", <<>>)
                  i == FirstIdx(projects, IsSsoProject)
              IN  IF i > 0 THEN projects[i].id ELSE "create"
    ELSE "create"

\* get_or_create_project, lines 41-52: the project to use, "create" when the
\* function goes on to create one, "raise" when json() raises
get_or_create_project(resp) ==
    IF resp.status = 200
    THEN IF ~resp.json THEN "raise"
         ELSE LET projects == Get(resp.data, "result", <<>>)
                  i == FirstIdx(projects, IsSsoProject)
              IN  IF i > 0 THEN projects[i].id
                  ELSE IF Len(projects) > 0 THEN projects[1].id
                  ELSE "create"
    ELSE "create"

\* get_or_create_project, lines 39-52, called by main line 125
OaSearchProjects ==
    /\ script = "create_oidc_app"
    /\ pc = "oa_search_projects"
    /\ \E o \in Failures \cup {ServedSearchProjects} :
        LET resp == requests_post(o)
            q == Append(reqs, Req("POST", "projects/_search", ProjectName,
                                  o, FALSE))
            got == get_or_create_project(resp)
        IN  IF resp.raised THEN ErrorExit(q, "ConnectionError", srv)
            ELSE IF got = "raise" THEN ErrorExit(q, "JSONDecodeError", srv)
            ELSE IF got = "create"
            THEN Move("oa_create_project", loc, wait, q, stdout, stderr, exitCode, srv)
            ELSE Move("oa_check_app", [loc EXCEPT !.project_id = got],
                      wait, q, stdout, stderr, exitCode, srv)

\* create_project, lines 27-37: the new project's id, None on any other status
create_project(resp) ==
    IF resp.status \in {200, 201}
    THEN IF ~resp.json THEN "raise" ELSE Get(resp.data, "id", None)
    ELSE None

\* get_or_create_project, lines 54-56, and main, lines 126-128
OaCreateProject ==
    /\ script = "create_oidc_app"
    /\ pc = "oa_create_project"
    /\ \E o \in Failures \cup {ServedCreateProject} :
        LET resp == requests_post(o)
            q == Append(reqs, Req("POST", "projects", ProjectName, o,
                                  HasName(srv.projects, ProjectName)))
            s == AfterCreateProject(o)
            project_id == create_project(resp)
        IN  IF resp.raised THEN ErrorExit(q, "ConnectionError", s)
            ELSE IF project_id = "raise" THEN ErrorExit(q, "JSONDecodeError", s)
            ELSE IF project_id = None
            THEN ErrorExit(q, "Failed to get or create project", s)
            ELSE Move("oa_check_app", [loc EXCEPT !.project_id = project_id],
                      wait, q, stdout, stderr, exitCode, s)

\* check_app_exists, lines 61-68: index of the app of that name, 0 for None,
\* -1 when json() raises
check_app_exists(resp, app_name) ==
    IF resp.status = 200
    THEN IF ~resp.json THEN -1
         ELSE LET apps == Get(resp.data, "result", <<>>)
                  Named(a) == a.name = app_name
              IN  FirstIdx(apps, Named)
    ELSE 0

\* main, lines 130-142
OaCheckApp ==
    /\ script = "create_oidc_app"
    /\ pc = "oa_check_app"
    /\ \E o \in Failures \cup {Resp(200, TRUE, [result |-> AppsOf(loc.project_id)])} :
        LET resp == requests_post(o)
            q == Append(reqs, Req("POST", "apps/_search", loc.project_id,
                                  o, FALSE))
            i == check_app_exists(resp, argv.app_name)
        IN  IF resp.raised THEN ErrorExit(q, "ConnectionError", srv)
            ELSE IF i < 0 THEN ErrorExit(q, "JSONDecodeError", srv)
            ELSE IF i > 0
            THEN LET app == resp.data.result[i]
                 IN  Move("done", [loc EXCEPT !.existing_app = app], wait, q,
                          Append(stdout,
                                 Json([status |-> "exists", app_id |-> app.id,
                                       message |-> "App already exists"])),
                          stderr, 0, srv)
            ELSE Move("oa_create_app", loc, wait, q, stdout, stderr, exitCode, srv)

\* create_oidc_app, lines 100-107, and main, lines 144-165
OaCreateApp ==
    /\ script = "create_oidc_app"
    /\ pc = "oa_create_app"
    /\ \E o \in Failures \cup {ServedCreateApp(loc.project_id, argv.app_name)} :
        LET resp == requests_post(o)
            q == Append(reqs, Req("POST", "apps/oidc", loc.project_id, o,
                                  HasName(AppsOf(loc.project_id), argv.app_name)))
            s == AfterCreateApp(o, loc.project_id, argv.app_name)
        IN  IF resp.raised THEN ErrorExit(q, "ConnectionError", s)
            ELSE IF resp.status \in {200, 201}
            THEN IF ~resp.json THEN ErrorExit(q, "JSONDecodeError", s)
                 ELSE Move("done", loc, wait, q,
                           Append(stdout, Json(CreatedOutput(resp.data))),
                           stderr, 0, s)
            ELSE ErrorExit(q, "Failed to create OIDC app", s)

----------------------------------------------------------------------------
(* create_machine_user.py *)

MachineUserLoc == [access_token |-> None, user_id |-> None]

InitMachineUser ==
    /\ script = "create_machine_user"
    /\ argv = [domain |-> "zitadel", admin_username |-> "admin",
               admin_password |-> "secret"]
    /\ pc = "mu_token"
    /\ loc = MachineUserLoc
    /\ \E us \in Listings({ServiceUser, AdminUser}), hasKey \in BOOLEAN :
        /\ hasKey => HasId(us, ServiceUser.id)
        /\ srv = [NoSrv EXCEPT
                    !.users = us,
                    !.machineKeys = IF hasKey
                                    THEN <<[keyId |-> "k0", userId |-> ServiceUser.id]>>
                                    ELSE <<>>]

\* get_admin_token, lines 12-27, called by main line 110
MuToken ==
    /\ script = "create_machine_user"
    /\ pc = "mu_token"
    /\ \E o \in Failures \cup {Resp(200, TRUE, [access_token |-> "at1"])} :
        LET resp == requests_post(o)
            q == Append(reqs, Req("POST", "oauth/v2/token", None, o, FALSE))
            se == Append(stderr, Text("Authenticating as admin..."))
        IN  IF resp.raised
            THEN Move("done", loc, wait, q, stdout,
                      Append(se, Text("Error: ConnectionError")), 1, srv)
            ELSE IF resp.status # 200
            THEN Move("done", loc, wait, q, stdout,
                      Append(se, Text("Error: Failed to get admin token")), 1, srv)
            ELSE IF ~resp.json
            THEN Move("done", loc, wait, q, stdout,
                      Append(se, Text("Error: JSONDecodeError")), 1, srv)
            ELSE Move("mu_create_user",
                      [loc EXCEPT !.access_token = Get(resp.data, "access_token", None)],
                      wait, q, stdout, se, exitCode, srv)

HasUserName(seq, n) == \E i \in 1..Len(seq) : seq[i].userName = n

\* create_machine_user, lines 29-51, called by main lines 113-115
MuCreateUser ==
    /\ script = "create_machine_user"
    /\ pc = "mu_create_user"
    /\ LET existed == HasUserName(srv.users, ServiceUserName)
           newId == FreshId("nu", srv.nextId)
           served == IF existed THEN Resp(409, TRUE, ErrBody)
                     ELSE Resp(200, TRUE, [userId |-> newId])
       IN \E o \in Failures \cup {served} :
            LET resp == requests_post(o)
                q == Append(reqs, Req("POST", "users/machine", ServiceUserName,
                                      o, existed))
                s == IF o = served /\ ~existed
                     THEN [srv EXCEPT
                             !.users = Append(@, [id |-> newId,
                                                  userName |-> ServiceUserName]),
                             !.nextId = @ + 1]
                     ELSE srv
                se == Append(stderr, Text("Creating machine user 'api-automation'..."))
            IN  IF resp.raised
                THEN Move("done", loc, wait, q, stdout,
                          Append(se, Text("Error: ConnectionError")), 1, s)
                ELSE IF resp.status \in {200, 201}
                THEN IF ~resp.json
                     THEN Move("done", loc, wait, q, stdout,
                               Append(se, Text("Error: JSONDecodeError")), 1, s)
                     ELSE Move("mu_create_key",
                               [loc EXCEPT !.user_id = Get(resp.data, "userId", None)],
                               wait, q, stdout, Append(se, Text("Machine user ID")),
                               exitCode, s)
                ELSE IF resp.status = 409
                THEN Move("mu_find_user", loc, wait, q, stdout, se, exitCode, s)
                ELSE Move("done", loc, wait, q, stdout,
                          Append(se, Text("Error: Failed to create machine user")), 1, s)

\* POST /management/v1/users/_search with a userNameQuery: the users of that name
UsersNamed(n) ==
    LET Named(u) == u.userName = n
    IN  SelectSeq(srv.users, Named)

\* find_machine_user, lines 73-77: the id of the first user listed, or None
find_machine_user(resp) ==
    IF resp.status = 200
    THEN IF ~resp.json THEN "raise"
         ELSE LET result == Get(resp.data, "result", <<>>)
              IN  IF Len(result) > 0 THEN result[1].id ELSE None
    ELSE None

\* find_machine_user, lines 53-77, called from create_machine_user line 49
MuFindUser ==
    /\ script = "create_machine_user"
    /\ pc = "mu_find_user"
    /\ \E o \in Failures \cup {Resp(200, TRUE, [result |-> UsersNamed(ServiceUserName)])} :
        LET resp == requests_post(o)
            q == Append(reqs, Req("POST", "users/_search", ServiceUserName,
                                  o, FALSE))
            found == find_machine_user(resp)
        IN  IF resp.raised \/ found = "raise" THEN ErrorExit(q, "exception", srv)
            ELSE Move("mu_create_key", [loc EXCEPT !.user_id = found], wait, q,
                      stdout, Append(stderr, Text("Machine user ID")), exitCode, srv)

\* create_machine_key, lines 79-96, and main, lines 117-126
MuCreateKey ==
    /\ script = "create_machine_user"
    /\ pc = "mu_create_key"
    /\ LET newKey == FreshId("nk", srv.nextId)
           served == IF HasId(srv.users, loc.user_id)
                     THEN Resp(200, TRUE, [keyId |-> newKey, keyDetails |-> "base64"])
                     ELSE Resp(404, TRUE, ErrBody)
       IN \E o \in Failures \cup {served} :
            LET resp == requests_post(o)
                q == Append(reqs, Req("POST", "users/keys", loc.user_id, o,
                                      \E i \in 1..Len(srv.machineKeys) :
                                          srv.machineKeys[i].userId = loc.user_id))
                s == IF o = served /\ o.status = 200
                     THEN [srv EXCEPT
                             !.machineKeys = Append(@, [keyId |-> newKey,
                                                        userId |-> loc.user_id]),
                             !.nextId = @ + 1]
                     ELSE srv
                se == Append(stderr, Text("Creating JWT key..."))
            IN  IF resp.raised
                THEN Move("done", loc, wait, q, stdout,
                          Append(se, Text("Error: ConnectionError")), 1, s)
                ELSE IF resp.status \in {200, 201}
                THEN IF ~resp.json
                     THEN Move("done", loc, wait, q, stdout,
                               Append(se, Text("Error: JSONDecodeError")), 1, s)
                     ELSE Move("done", loc, wait, q, Append(stdout, Json(resp.data)),
                               se, 0, s)
                ELSE Move("done", loc, wait, q, stdout,
                          Append(se, Text("Error: Failed to create machine key")), 1, s)

----------------------------------------------------------------------------
(* setup_automation.py *)

SetupLoc == [project_id |-> None, user_id |-> None, granted |-> FALSE]

SuccessMessage == Text("SUCCESS! OIDC automation is now fully configured.")

InitSetupAutomation ==
    /\ script = "setup_automation"
    /\ argv = [domain |-> "zitadel", pat_token |-> "pat"]
    /\ pc = "sa_create_project"
    /\ loc = SetupLoc
    /\ \E ps \in Listings({SsoProject, DefaultProject}),
          us \in Listings({ServiceUser, AdminUser}),
          granted \in BOOLEAN :
        /\ granted => HasId(ps, SsoProject.id) /\ HasId(us, ServiceUser.id)
        /\ srv = [NoSrv EXCEPT
                    !.projects = ps, !.users = us,
                    !.grants = IF granted
                               THEN <<[project |-> SsoProject.id,
                                       user |-> ServiceUser.id]>>
                               ELSE <<>>]

\* main's "except Exception", lines 158-162: the message goes to standard
\* output, the traceback to standard error
SetupErrorExit(q, so, s) ==
    Move("done", loc, wait, q, Append(so, Text("Error")),
         Append(stderr, Text("Traceback")), 1, s)

\* main, lines 114-133, and create_project, lines 24-42
SaCreateProject ==
    /\ script = "setup_automation"
    /\ pc = "sa_create_project"
    /\ \E o \in Failures \cup {ServedCreateProject} :
        LET resp == requests_post(o)
            q == Append(reqs, Req("POST", "projects", ProjectName, o,
                                  HasName(srv.projects, ProjectName)))
            s == AfterCreateProject(o)
            so == Append(Append(stdout, Text("Zitadel OIDC Automation Setup")), Text("Creating project"))
        IN  IF resp.raised THEN SetupErrorExit(q, so, s)
            ELSE IF resp.status \in {200, 201}
            THEN IF ~resp.json THEN SetupErrorExit(q, so, s)
                 ELSE IF Get(resp.data, "id", None) = None
                 THEN Move("done", loc, wait, q,
                           Append(Append(so, Text("Project created")),
                                  Text("Failed to create/find project")),
                           stderr, 1, s)
                 ELSE Move("sa_get_user",
                           [loc EXCEPT !.project_id = resp.data.id], wait, q,
                           Append(so, Text("Project created")), stderr, exitCode, s)
            ELSE IF resp.status = 409
            THEN Move("sa_find_project", loc, wait, q,
                      Append(so, Text("Project already exists, searching...")),
                      stderr, exitCode, s)
            ELSE Move("done", loc, wait, q,
                      Append(Append(so, Text("Failed to create project")),
                             Text("Failed to create/find project")),
                      stderr, 1, s)

\* find_project, lines 44-55, and main, lines 131-133
SaFindProject ==
    /\ script = "setup_automation"
    /\ pc = "sa_find_project"
    /\ \E o \in Failures \cup {ServedSearchProjects} :
        LET resp == requests_post(o)
            q == Append(reqs, Req("POST", "projects/_search", ProjectName,
                                  o, FALSE))
            found == find_project(resp)
        IN  IF resp.raised \/ found = "raise" THEN SetupErrorExit(q, stdout, srv)
            ELSE IF found = None
            THEN Move("done", loc, wait, q,
                      Append(stdout, Text("Failed to create/find project")),
                      stderr, 1, srv)
            ELSE Move("sa_get_user", [loc EXCEPT !.project_id = found], wait, q,
                      Append(stdout, Text("Found existing project")),
                      stderr, exitCode, srv)

\* get_service_user_id, lines 69-77: the id of the first user listed, or None
get_service_user_id(resp) ==
    IF resp.status = 200
    THEN IF ~resp.json THEN "raise"
         ELSE LET users == Get(resp.data, "result", <<>>)
              IN  IF Len(users) > 0 THEN users[1].id ELSE None
    ELSE None

\* get_service_user_id, lines 57-77, and main, lines 135-140.  The payload
\* {"query": {"userName": ...}} is no search query of the API: the service
\* may apply it as a filter or ignore it and list every user
SaGetUser ==
    /\ script = "setup_automation"
    /\ pc = "sa_get_user"
    /\ \E o \in Failures \cup {Resp(200, TRUE, [result |-> UsersNamed(ServiceUserName)]),
                               Resp(200, TRUE, [result |-> srv.users])} :
        LET resp == requests_post(o)
            q == Append(reqs, Req("POST", "users/_search", ServiceUserName,
                                  o, FALSE))
            so == Append(stdout, Text("Looking for service user"))
            found == get_service_user_id(resp)
        IN  IF resp.raised \/ found = "raise" THEN SetupErrorExit(q, so, srv)
            ELSE IF found = None
            THEN Move("done", loc, wait, q,
                      Append(Append(so, Text("Service user not found")),
                             Text("Service user 'api-automation' not found")),
                      stderr, 1, srv)
            ELSE Move("sa_grant", [loc EXCEPT !.user_id = found], wait, q,
                      Append(so, Text("Found service user")), stderr, exitCode, srv)

\* grant_project_permission that returns False on a status other than 200/201
grant_project_permission_checked(status) == status \in {200, 201}

\* grant_project_permission, lines 96-103: what it returns for a status
grant_project_permission(status) == TRUE

\* main, lines 142-156: the exit status once the grant call has returned
ExitAfterGrant(granted) == 0

\* grant_project_permission, lines 79-103, and main, lines 142-156
SaGrant ==
    /\ script = "setup_automation"
    /\ pc = "sa_grant"
    /\ LET want == [project |-> loc.project_id, user |-> loc.user_id]
           existed == \E i \in 1..Len(srv.grants) : srv.grants[i] = want
           served == IF existed THEN Resp(409, TRUE, ErrBody)
                     ELSE Resp(200, TRUE, [details |-> "ok"])
       IN \E o \in Failures \cup {served} :
            LET resp == requests_post(o)
                q == Append(reqs, Req("POST", "roles/_bulk/set", loc.user_id,
                                      o, existed))
                s == IF o = served /\ ~existed
                     THEN [srv EXCEPT !.grants = Append(@, want)]
                     ELSE srv
                so == Append(stdout, Text("Granting PROJECT_OWNER permission..."))
                granted == grant_project_permission(resp.status)
                so2 == Append(so, IF resp.status \in {200, 201}
                                  THEN Text("Permission granted")
                                  ELSE Text("Permission grant failed"))
                so3 == IF granted THEN so2
                       ELSE Append(so2, Text("Warning: Could not grant permissions"))
            IN  IF resp.raised THEN SetupErrorExit(q, so, s)
                ELSE IF ExitAfterGrant(granted) = 0
                THEN Move("done", [loc EXCEPT !.granted = granted], wait, q,
                          Append(so3, SuccessMessage), stderr, 0, s)
                ELSE Move("done", [loc EXCEPT !.granted = granted], wait, q,
                          so3, stderr, 1, s)

----------------------------------------------------------------------------
(* bootstrap_api_token.py *)

BootstrapTokenLoc ==
    [session |-> FALSE, cookies |-> FALSE, user_id |-> None, token |-> None]

InitBootstrapToken ==
    /\ script = "bootstrap_api_token"
    /\ argv = [domain |-> "zitadel", admin_username |-> "admin",
               admin_password |-> "secret"]
    /\ pc = "bt_login"
    /\ loc = BootstrapTokenLoc
    /\ \E us \in Listings({ServiceUser, AdminUser}), hasPat \in BOOLEAN :
        /\ hasPat => HasId(us, ServiceUser.id)
        /\ srv = [NoSrv EXCEPT
                    !.users = us,
                    !.pats = IF hasPat
                             THEN <<[token |-> "pat0", userId |-> ServiceUser.id]>>
                             ELSE <<>>]

\* an exception in main, which has no try: the traceback goes to standard
\* error and the process exits with status 1
BootstrapCrash(q, so, s) ==
    Move("done", loc, wait, q, so, Append(stderr, Text("Traceback")), 1, s)

\* what the login pages answer: a page under some status that sets a session
\* cookie or none, or no response.  requests.Session keeps every cookie set
\* by any answer of the session.
LoginAnswers ==
    {[o |-> Resp(st, FALSE, RawBody), set_cookie |-> c] : st \in {200, 400}, c \in BOOLEAN}
    \cup {[o |-> UrlError, set_cookie |-> FALSE]}

\* login_and_get_session, line 40: the status is not looked at; the session
\* counts as logged in when the last answer carries Set-Cookie or the
\* session holds a cookie
login_and_get_session(set_cookie, cookies) == set_cookie \/ cookies

\* main, lines 127-135, and login_and_get_session, lines 15-25: the login page
BtLoginPage ==
    /\ script = "bootstrap_api_token"
    /\ pc = "bt_login"
    /\ \E a \in LoginAnswers :
        LET q == Append(reqs, Req("GET", "ui/login/loginname", None, a.o, FALSE))
            so == Append(Append(stdout, Text("Zitadel API Token Bootstrap")), Text("Initiating login"))
        IN  IF a.o.kind # "http" THEN BootstrapCrash(q, so, srv)
            ELSE Move("bt_login_name", [loc EXCEPT !.cookies = a.set_cookie], wait, q,
                      so, stderr, exitCode, srv)

\* login_and_get_session, lines 27-31: the user name is submitted
BtLoginName ==
    /\ script = "bootstrap_api_token"
    /\ pc = "bt_login_name"
    /\ \E a \in LoginAnswers :
        LET q == Append(reqs, Req("POST", "ui/login/loginname", argv.admin_username,
                                  a.o, FALSE))
        IN  IF a.o.kind # "http" THEN BootstrapCrash(q, stdout, srv)
            ELSE Move("bt_login_password",
                      [loc EXCEPT !.cookies = @ \/ a.set_cookie], wait, q,
                      stdout, stderr, exitCode, srv)

\* login_and_get_session, lines 33-46, and main, lines 136-138: the password
\* is submitted
BtLoginPassword ==
    /\ script = "bootstrap_api_token"
    /\ pc = "bt_login_password"
    /\ \E a \in LoginAnswers :
        LET q == Append(reqs, Req("POST", "ui/login/password", None, a.o, FALSE))
            cookies == loc.cookies \/ a.set_cookie
        IN  IF a.o.kind # "http" THEN BootstrapCrash(q, stdout, srv)
            ELSE IF login_and_get_session(a.set_cookie, cookies)
            THEN Move("bt_create_user",
                      [loc EXCEPT !.session = TRUE, !.cookies = cookies], wait, q,
                      Append(stdout, Text("Login successful!")), stderr, exitCode, srv)
            ELSE Move("done", loc, wait, q,
                      Append(Append(Append(stdout, Text("Login failed")),
                                    Text("Response")),
                             Text("Failed to establish session")),
                      stderr, 1, srv)

\* main, lines 143-147, and create_machine_user, lines 48-70 and 84-88
BtCreateUser ==
    /\ script = "bootstrap_api_token"
    /\ pc = "bt_create_user"
    /\ LET existed == HasUserName(srv.users, ServiceUserName)
           newId == FreshId("nu", srv.nextId)
           served == IF existed THEN Resp(409, TRUE, ErrBody)
                     ELSE Resp(200, TRUE, [userId |-> newId])
       IN \E o \in Failures \cup {served} :
            LET resp == requests_post(o)
                q == Append(reqs, Req("POST", "users/machine", ServiceUserName,
                                      o, existed))
                s == IF o = served /\ ~existed
                     THEN [srv EXCEPT
                             !.users = Append(@, [id |-> newId,
                                                  userName |-> ServiceUserName]),
                             !.nextId = @ + 1]
                     ELSE srv
                so == Append(stdout, Text("Creating API automation service user..."))
                user_id == Get(resp.data, "userId", None)
            IN  IF resp.raised THEN BootstrapCrash(q, so, s)
                ELSE IF resp.status \in {200, 201}
                THEN IF ~resp.json THEN BootstrapCrash(q, so, s)
                     ELSE IF user_id = None
                     THEN Move("done", loc, wait, q,
                               Append(Append(so, Text("Machine user created")),
                                      Text("Failed to create or find machine user")),
                               stderr, 1, s)
                     ELSE Move("bt_create_pat", [loc EXCEPT !.user_id = user_id],
                               wait, q, Append(so, Text("Machine user created")),
                               stderr, exitCode, s)
                ELSE IF resp.status = 409
                THEN Move("bt_find_user", loc, wait, q,
                          Append(so, Text("Machine user already exists")),
                          stderr, exitCode, s)
                ELSE Move("done", loc, wait, q,
                          Append(Append(Append(so, Text("Failed to create machine user")),
                                        Text("Response")),
                                 Text("Failed to create or find machine user")),
                          stderr, 1, s)

\* create_machine_user, lines 71-83, and main, lines 145-147.  The payload
\* {"query": {"userName": ...}} is no search query of the API: the service
\* may apply it as a filter or ignore it and list every user
BtFindUser ==
    /\ script = "bootstrap_api_token"
    /\ pc = "bt_find_user"
    /\ \E o \in Failures \cup {Resp(200, TRUE, [result |-> UsersNamed(ServiceUserName)]),
                               Resp(200, TRUE, [result |-> srv.users])} :
        LET resp == requests_post(o)
            q == Append(reqs, Req("POST", "users/_search", ServiceUserName,
                                  o, FALSE))
            found == get_service_user_id(resp)
        IN  IF resp.raised \/ found = "raise" THEN BootstrapCrash(q, stdout, srv)
            ELSE IF found = None
            THEN Move("done", loc, wait, q,
                      Append(stdout, Text("Failed to create or find machine user")),
                      stderr, 1, srv)
            ELSE Move("bt_create_pat", [loc EXCEPT !.user_id = found], wait, q,
                      Append(stdout, Text("Found existing user")),
                      stderr, exitCode, srv)

\* POST /management/v1/users/{user_id}/pats: every call mints a new token
ServedCreatePat(user_id) ==
    IF HasId(srv.users, user_id)
    THEN Resp(200, TRUE, [tokenId |-> FreshId("nt", srv.nextId),
                          token |-> FreshId("pat", srv.nextId)])
    ELSE Resp(404, TRUE, ErrBody)

\* create_pat, lines 90-115, and main, lines 152-168
BtCreatePat ==
    /\ script = "bootstrap_api_token"
    /\ pc = "bt_create_pat"
    /\ LET served == ServedCreatePat(loc.user_id)
       IN \E o \in Failures \cup {served} :
            LET resp == requests_post(o)
                q == Append(reqs, Req("POST", "users/pats", loc.user_id, o,
                                      \E i \in 1..Len(srv.pats) :
                                          srv.pats[i].userId = loc.user_id))
                s == IF o = served /\ o.status = 200
                     THEN [srv EXCEPT
                             !.pats = Append(@, [token |-> o.data.token,
                                                 userId |-> loc.user_id]),
                             !.nextId = @ + 1]
                     ELSE srv
                so == Append(stdout, Text("Creating Personal Access Token..."))
                token == Get(resp.data, "token", None)
            IN  IF resp.raised THEN BootstrapCrash(q, so, s)
                ELSE IF resp.status \in {200, 201}
                THEN IF ~resp.json THEN BootstrapCrash(q, so, s)
                     ELSE IF token = None
                     THEN Move("done", loc, wait, q,
                               Append(Append(Append(so, Text("PAT created but token not in response")),
                                             Text("Response")),
                                      Text("Failed to create Personal Access Token")),
                               stderr, 1, s)
                     ELSE Move("done", [loc EXCEPT !.token = token], wait, q,
                               Append(Append(Append(so, Text("Personal Access Token created successfully!")),
                                             Text("SUCCESS! API automation is ready.")),
                                      Text(token)),
                               stderr, 0, s)
                ELSE Move("done", loc, wait, q,
                          Append(Append(Append(so, Text("Failed to create PAT")),
                                        Text("Response")),
                                 Text("Failed to create Personal Access Token")),
                          stderr, 1, s)

----------------------------------------------------------------------------
(* Runs *)

StartPc ==
    CASE script = "authentik_api" -> "wait_for_ready"
      [] script = "configure_invitation_flow" -> "inv_list_flows"
      [] script = "configure_2fa_enforcement" -> "mfa_list_validate"
      [] script = "configure_recovery_flow" -> "rec_list_flows"
      [] script = "create_recovery_flow" -> "crf_list_flows"
      [] script = "zitadel_api" -> "za_token"
      [] script = "create_oidc_app" -> "oa_search_projects"
      [] script = "create_machine_user" -> "mu_token"
      [] script = "setup_automation" -> "sa_create_project"
      [] script = "bootstrap_api_token" -> "bt_login"
      [] script = "test_oidc_provider" -> "top_list_providers"

StartLoc ==
    CASE script = "authentik_api" -> AuthentikLoc
      [] script = "configure_invitation_flow" -> InvitationLoc
      [] script = "configure_2fa_enforcement" -> TwoFaLoc
      [] script = "configure_recovery_flow" -> [flow_slug |-> None, flow_pk |-> None]
      [] script = "create_recovery_flow" -> CreateRecoveryLoc
      [] script = "zitadel_api" -> ZitadelApiLoc
      [] script = "create_oidc_app" -> OidcAppLoc
      [] script = "create_machine_user" -> MachineUserLoc
      [] script = "setup_automation" -> SetupLoc
      [] script = "bootstrap_api_token" -> BootstrapTokenLoc
      [] script = "test_oidc_provider" -> TestLoc

\* the script is started again, with the same arguments, against the same service
Rerun ==
    /\ pc = "done"
    /\ runs < MaxRuns
    /\ runs' = runs + 1
    /\ past' = Append(past, exitCode)
    /\ pc' = StartPc
    /\ loc' = StartLoc
    /\ wait' = NoWait
    /\ reqs' = <<>>
    /\ stdout' = <<>>
    /\ stderr' = <<>>
    /\ exitCode' = Running
    /\ UNCHANGED <<script, argv, srv, peer>>

Init ==
    /\ runs = 1
    /\ past = <<>>
    /\ peer = NoPeer
    /\ wait = NoWait
    /\ reqs = <<>>
    /\ stdout = <<>>
    /\ stderr = <<>>
    /\ exitCode = Running
    /\ \/ InitAuthentikApi
       \/ InitInvitation
       \/ InitTwoFa
       \/ InitRecovery
       \/ InitCreateRecovery
       \/ InitZitadelApi
       \/ InitOidcApp
       \/ InitMachineUser
       \/ InitSetupAutomation
       \/ InitBootstrapToken
       \/ InitTestProvider

Next ==
    \/ WaitProbe
    \/ WaitTimeout
    \/ MainReady
    \/ Bootstrap
    \/ GetFlow
    \/ GetKey
    \/ CreateProvider
    \/ CreateApplication
    \/ InvListFlows
    \/ InvListStages
    \/ InvCreateStage
    \/ InvListBindings
    \/ InvCreateBinding
    \/ MfaListValidate
    \/ MfaListTotp
    \/ MfaPatch
    \/ RecListFlows
    \/ CrfListFlows
    \/ ZaToken
    \/ ZaCreateProject
    \/ ZaFindProject
    \/ ZaCreateApp
    \/ OaSearchProjects
    \/ OaCreateProject
    \/ OaCheckApp
    \/ OaCreateApp
    \/ MuToken
    \/ MuCreateUser
    \/ MuFindUser
    \/ MuCreateKey
    \/ SaCreateProject
    \/ SaFindProject
    \/ SaGetUser
    \/ SaGrant
    \/ BtLoginPage
    \/ BtLoginName
    \/ BtLoginPassword
    \/ BtCreateUser
    \/ BtFindUser
    \/ BtCreatePat
    \/ TopListProviders
    \/ TopDeleteProvider
    \/ TopGetFlows
    \/ TopGetKeys
    \/ TopCreateProvider
    \/ TopListApps
    \/ TopDeleteApp
    \/ TopCreateApp
    \/ Rerun

Spec == Init /\ [][Next]_vars

----------------------------------------------------------------------------
(* Two invocations of configure_invitation_flow.py at the same time *)

\* two processes are started against the same service; each has its own
\* position, local variables, request log, output and exit status, and they
\* share nothing but the service
InitPair ==
    /\ runs = 1
    /\ past = <<>>
    /\ wait = NoWait
    /\ reqs = <<>>
    /\ stdout = <<>>
    /\ stderr = <<>>
    /\ exitCode = Running
    /\ script = "configure_invitation_flow"
    /\ argv = [base_url |-> "https://auth", token |-> TRUE]
    /\ pc = "inv_list_flows"
    /\ loc = InvitationLoc
    /\ peer = [id |-> 2, pc |-> "inv_list_flows", loc |-> InvitationLoc, reqs |-> <<>>,
               stdout |-> <<>>, stderr |-> <<>>, exitCode |-> Running]
    /\ \E st \in Listings({InvitationStage, OtherInvitationStage}),
          bs \in Listings({PromptBinding, InvitationBinding}) :
            /\ HasName(st, InvitationStageName)
                \/ \A i \in 1..Len(bs) : bs[i] # InvitationBinding
            /\ srv = [NoSrv EXCEPT !.flows = <<EnrollmentFlow>>,
                                   !.invStages = st, !.bindings = bs]

\* the operating system runs the other process next: every request of a
\* process is served as a whole, and the two processes' requests interleave
\* in any order
Yield ==
    /\ peer.id # 0
    /\ peer.pc # "done"
    /\ pc' = peer.pc
    /\ loc' = peer.loc
    /\ reqs' = peer.reqs
    /\ stdout' = peer.stdout
    /\ stderr' = peer.stderr
    /\ exitCode' = peer.exitCode
    /\ peer' = [id |-> 3 - peer.id, pc |-> pc, loc |-> loc, reqs |-> reqs,
                stdout |-> stdout, stderr |-> stderr, exitCode |-> exitCode]
    /\ UNCHANGED <<script, argv, wait, srv, runs, past>>

NextPair ==
    \/ InvListFlows
    \/ InvListStages
    \/ InvCreateStage
    \/ InvListBindings
    \/ InvCreateBinding
    \/ Yield

SpecPair == InitPair /\ [][NextPair]_vars

----------------------------------------------------------------------------
(* The readiness poll of authentik_api.py on its own *)

\* main up to the call of wait_for_ready (line 236)
InitWait ==
    /\ runs = 1
    /\ past = <<>>
    /\ peer = NoPeer
    /\ wait = NoWait
    /\ reqs = <<>>
    /\ stdout = <<>>
    /\ stderr = <<>>
    /\ exitCode = Running
    /\ InitAuthentikApi

\* the loop of wait_for_ready, up to its return
NextWait ==
    \/ WaitProbe
    \/ WaitTimeout

\* the process is never suspended for ever: the step it is at is taken
SpecWait ==
    InitWait /\ [][NextWait]_vars /\ WF_vars(WaitProbe) /\ WF_vars(WaitTimeout)

----------------------------------------------------------------------------
(* Properties *)

Done == pc = "done"

\* positions of the request log
Idx == 1..Len(reqs)

\* the response was an HTTP response with a status outside 2xx/3xx
Failing(e) == e.status # 0 /\ e.status \notin 200..399

\* a listing that came back 200 with a JSON body
Listed(e) == e.status = 200 /\ e.json

\* a JSON object with an 'error' key was printed on standard output or error
ErrorJsonEmitted ==
    \/ \E k \in 1..Len(stdout) : HasKey(stdout[k], "error")
    \/ \E k \in 1..Len(stderr) : HasKey(stderr[k], "error")

\* some JSON object printed on standard output carries the identifier
Reported(id) ==
    \E k \in 1..Len(stdout) :
        /\ stdout[k].kind = "json"
        /\ \E f \in DOMAIN stdout[k].obj \ {"success"} : stdout[k].obj[f] = id

InWait == script = "authentik_api" /\ pc \in {"wait_for_ready", "main_ready"}

\* C1: wait_for_ready returns True as soon as one probe of the root endpoint
\* comes back with status 200 or 302, whatever body the response carries, and
\* returns False only once the timeout has elapsed without such a probe.
C1_ReadyOnFirstSuccess ==
    InWait =>
        /\ (wait.probes > 0 /\ wait.last.kind = "http" /\ wait.last.status \in {200, 302})
            => (pc = "main_ready" /\ loc.ready)
        /\ (pc = "main_ready" /\ ~loc.ready) => wait.now >= argv.wait_timeout

\* the run that C2 is about: a valid token, a ready service, listings that
\* hold a default authorization flow and a signing key, creates answered 201
C2_Served(e) ==
    /\ e.json
    /\ e.method = "GET" => e.status = 200
    /\ e.method = "POST" => e.status = 201

C2_Pre ==
    /\ script = "authentik_api"
    /\ argv.token
    /\ loc.ready
    /\ \E i \in 1..Len(srv.flows) : srv.flows[i].slug = "default-authorization-flow"
    /\ Len(srv.keys) > 0
    /\ \A i \in Idx : C2_Served(reqs[i])

\* C2: a run of authentik_api.py with a valid token against a ready service
\* whose flow listing holds a default authorization flow, whose key listing
\* holds a signing key and whose two create calls return 201 exits 0 and
\* prints one JSON object with the provider's client_id, client_secret and pk,
\* the application's pk, and the discovery URI of the slug.
C2_EndToEnd ==
    (C2_Pre /\ Done) =>
        /\ exitCode = 0
        /\ Len(reqs) = 4
        /\ Len(stdout) = 1
        /\ stdout[1].kind = "json"
        /\ LET obj == stdout[1].obj
               provider == reqs[3].body
               application == reqs[4].body
               slug == IF argv.app_slug = None THEN "nextcloud" ELSE argv.app_slug
           IN  /\ obj.client_id = provider.client_id
               /\ obj.client_secret = provider.client_secret
               /\ obj.provider_id = provider.pk
               /\ obj.application_id = application.pk
               /\ obj.discovery_uri =
                    argv.domain \o "/application/o/" \o slug
                    \o "/.well-known/openid-configuration"

\* C2 witness: such a run has ended, with a slug given on the command line
C2_Witness ==
    /\ C2_Pre
    /\ Done
    /\ Len(reqs) = 4
    /\ argv.app_slug = "nc"
    /\ reqs[3].body.pk # reqs[4].body.pk

\* the listing logged at position i holds a record that P accepts
ListsMatch(e, key, P(_)) ==
    /\ Listed(e)
    /\ \E k \in 1..Len(Get(e.body, key, <<>>)) : P(e.body[key][k])

NoPost(ep) == \A j \in Idx : ~(reqs[j].method = "POST" /\ reqs[j].ep = ep)

C3_IsTargetApp(a) == a.name = argv.app_name
C3_IsTargetStage(st) == st.name = "default-enrollment-invitation"
C3_IsTargetBinding(b) == b.stage = loc.stage_pk

C3_AppListed(e) ==
    /\ script = "create_oidc_app"
    /\ e.ep = "apps/_search"
    /\ ListsMatch(e, "result", C3_IsTargetApp)

C3_StageListed(e) ==
    /\ script = "configure_invitation_flow"
    /\ e.method = "GET" /\ e.ep = "stages/invitation"
    /\ ListsMatch(e, "results", C3_IsTargetStage)

C3_BindingListed(e) ==
    /\ script = "configure_invitation_flow"
    /\ e.method = "GET" /\ e.ep = "bindings"
    /\ ListsMatch(e, "results", C3_IsTargetBinding)

\* the identifier of the listed record that P accepts is reported
C3_ReportsListed(e, key, P(_), idOf(_)) ==
    \E k \in 1..Len(e.body[key]) : P(e.body[key][k]) /\ Reported(idOf(e.body[key][k]))

C3_Id(x) == x.id
C3_Pk(x) == x.pk

\* C3 as stated: in create_oidc_app.py and configure_invitation_flow.py,
\* whenever the listing response holds a resource whose match key equals the
\* target, the run issues no create call for that resource kind and reports
\* the identifier of the listed resource.
C3_ListedNeverCreated ==
    \A i \in Idx :
        /\ C3_AppListed(reqs[i]) =>
            /\ NoPost("apps/oidc")
            /\ Done => C3_ReportsListed(reqs[i], "result", C3_IsTargetApp, C3_Id)
        /\ C3_StageListed(reqs[i]) =>
            /\ NoPost("stages/invitation")
            /\ Done => C3_ReportsListed(reqs[i], "results", C3_IsTargetStage, C3_Pk)
        /\ C3_BindingListed(reqs[i]) =>
            /\ NoPost("bindings")
            /\ Done => C3_ReportsListed(reqs[i], "results", C3_IsTargetBinding, C3_Pk)

\* C3 amended: whenever the listing response holds a resource whose match key
\* equals the target, the run issues no create call for that resource kind;
\* create_oidc_app.py reports the listed app's id, configure_invitation_flow.py
\* reports the listed stage's pk when the run ends with exit status 0, and a
\* listed binding's own identifier is not reported.
C3_ListedNeverCreatedAmended ==
    \A i \in Idx :
        /\ C3_AppListed(reqs[i]) =>
            /\ NoPost("apps/oidc")
            /\ Done => C3_ReportsListed(reqs[i], "result", C3_IsTargetApp, C3_Id)
            /\ Done => exitCode = 0
        /\ C3_StageListed(reqs[i]) =>
            /\ NoPost("stages/invitation")
            /\ (Done /\ exitCode = 0)
                => C3_ReportsListed(reqs[i], "results", C3_IsTargetStage, C3_Pk)
        /\ C3_BindingListed(reqs[i]) =>
            /\ NoPost("bindings")
            /\ Done => (exitCode = 0
                        /\ ~C3_ReportsListed(reqs[i], "results", C3_IsTargetBinding, C3_Pk))

\* C3 witness: a run of configure_invitation_flow.py that found the stage and
\* its binding listed has ended
C3_Witness ==
    /\ Done
    /\ Len(reqs) = 3
    /\ C3_StageListed(reqs[2])
    /\ C3_BindingListed(reqs[3])
    /\ stdout # <<>>

\* C4: authentik_api.py and zitadel_api.py create the provider / OIDC app
\* only if none with the target name exists: no create call is issued when one
\* already exists, so at most one of that name exists on the server.
C4_CreateOnlyIfAbsent ==
    /\ script = "authentik_api" =>
        /\ \A i \in Idx :
            (reqs[i].method = "POST" /\ reqs[i].ep = "providers") => ~reqs[i].existed
        /\ Cardinality({i \in 1..Len(srv.providers) :
                            srv.providers[i].name = argv.app_name}) <= 1
    /\ script = "zitadel_api" =>
        /\ \A i \in Idx :
            (reqs[i].method = "POST" /\ reqs[i].ep = "apps/oidc") => ~reqs[i].existed
        /\ \A pr \in {srv.projects[k].id : k \in 1..Len(srv.projects)} :
            Cardinality({i \in 1..Len(srv.apps) :
                            /\ srv.apps[i].project = pr
                            /\ srv.apps[i].name = argv.app_name}) <= 1

PostsTo(ep) == {j \in Idx : reqs[j].method = "POST" /\ reqs[j].ep = ep}

\* the project listing of create_oidc_app.py succeeded without a project
\* named 'SSO Applications'
C5_NoMatch ==
    /\ script = "create_oidc_app"
    /\ Len(reqs) >= 1
    /\ Listed(reqs[1])
    /\ ~ListsMatch(reqs[1], "result", IsSsoProject)

C5_Listing == Get(reqs[1].body, "result", <<>>)

C5_Created(e) == e.status \in {200, 201} /\ e.json

\* what C5 asks of a listing without a match: one create call, and the id of
\* its response is the project the run goes on with
C5_CreatesOne ==
    /\ Len(reqs) = 1 => pc = "oa_create_project"
    /\ Len(reqs) >= 2 =>
        /\ reqs[2].method = "POST" /\ reqs[2].ep = "projects"
        /\ Cardinality(PostsTo("projects")) = 1
        /\ (Len(reqs) = 2 /\ C5_Created(reqs[2])) =>
            /\ pc = "oa_check_app"
            /\ loc.project_id = Get(reqs[2].body, "id", None)

\* C5 as stated: in create_oidc_app.py, when the project listing succeeds and
\* is empty or contains no project named 'SSO Applications',
\* get_or_create_project issues exactly one project create call and returns the
\* identifier of the newly created project.
C5_CreateWhenNoMatch == C5_NoMatch => C5_CreatesOne

\* C5 amended: when the project listing succeeds and is empty,
\* get_or_create_project issues exactly one project create call and returns
\* the id of its 200/201 response; when the listing is not empty and holds no
\* project named 'SSO Applications', it issues no create call and returns the
\* id of the first project listed.
C5_CreateOnlyWhenEmpty ==
    C5_NoMatch =>
        /\ Len(C5_Listing) = 0 => C5_CreatesOne
        /\ Len(C5_Listing) > 0 =>
            /\ NoPost("projects")
            /\ Len(reqs) = 1 =>
                /\ pc = "oa_check_app"
                /\ loc.project_id = C5_Listing[1].id

\* C5 witness: after an empty listing the project has been created and the
\* run goes on with its id
C5_Witness ==
    /\ C5_NoMatch
    /\ Len(C5_Listing) = 0
    /\ Len(reqs) = 2
    /\ C5_Created(reqs[2])
    /\ pc = "oa_check_app"
    /\ loc.project_id # None

C6_IsServiceUser(u) == u.userName = ServiceUserName

\* the create step of the resource that C6 is about, the search that follows
\* it, and the step the run goes on with
C6_CreateEp == IF script = "create_machine_user" THEN "users/machine" ELSE "projects"
C6_SearchEp == IF script = "create_machine_user" THEN "users/_search" ELSE "projects/_search"
C6_NextPc ==
    CASE script = "zitadel_api" -> "za_create_app"
      [] script = "setup_automation" -> "sa_get_user"
      [] script = "create_machine_user" -> "mu_create_key"
      [] OTHER -> "none"
C6_SearchPc ==
    CASE script = "zitadel_api" -> "za_find_project"
      [] script = "setup_automation" -> "sa_find_project"
      [] script = "create_machine_user" -> "mu_find_user"
      [] OTHER -> "none"
C6_Name == IF script = "create_machine_user" THEN ServiceUserName ELSE ProjectName
C6_Got == IF script = "create_machine_user" THEN loc.user_id ELSE loc.project_id

C6_Conflict(i) ==
    /\ script \in {"zitadel_api", "setup_automation", "create_machine_user"}
    /\ reqs[i].method = "POST"
    /\ reqs[i].ep = C6_CreateEp
    /\ reqs[i].status = 409

C6_ListedId(e) ==
    LET res == e.body["result"]
    IN  IF script = "create_machine_user"
        THEN res[FirstIdx(res, C6_IsServiceUser)].id
        ELSE res[FirstIdx(res, IsSsoProject)].id

C6_Lists(e) ==
    IF script = "create_machine_user"
    THEN ListsMatch(e, "result", C6_IsServiceUser)
    ELSE ListsMatch(e, "result", IsSsoProject)

\* C6: in zitadel_api.py and setup_automation.py (project) and in
\* create_machine_user.py (machine user), a create call answered 409 does not
\* end the run: the next request is the search by name, and when the search
\* lists the resource, the function returns the listed resource's id and the
\* run goes on with its next step.
C6_ConflictIsLookup ==
    \A i \in Idx :
        C6_Conflict(i) =>
            /\ Len(reqs) = i => (pc = C6_SearchPc /\ exitCode = Running)
            /\ Len(reqs) > i =>
                /\ reqs[i + 1].method = "POST"
                /\ reqs[i + 1].ep = C6_SearchEp
                /\ reqs[i + 1].arg = C6_Name
                /\ (Len(reqs) = i + 1 /\ C6_Lists(reqs[i + 1])) =>
                    /\ C6_Got = C6_ListedId(reqs[i + 1])
                    /\ pc = C6_NextPc
                    /\ exitCode = Running

\* C6 witness: the project create of zitadel_api.py was answered 409, the
\* search listed the project, and the run is about to create the app in it
C6_Witness ==
    /\ script = "zitadel_api"
    /\ Len(reqs) = 3
    /\ C6_Conflict(2)
    /\ C6_Lists(reqs[3])
    /\ loc.project_id = SsoProject.id
    /\ pc = "za_create_app"

\* C7: in create_oidc_app.py and zitadel_api.py, a project create call or an
\* OIDC app create call answered 409 is followed by a lookup of the existing
\* resource and never makes the run exit with a failure status.
C7_ConflictNeverFails ==
    script \in {"create_oidc_app", "zitadel_api"} =>
        \A i \in Idx :
            (/\ reqs[i].method = "POST"
             /\ reqs[i].ep \in {"projects", "apps/oidc"}
             /\ reqs[i].status = 409) =>
                /\ ~(Done /\ Len(reqs) = i /\ exitCode # 0)
                /\ Len(reqs) > i => reqs[i + 1].ep \in {"projects/_search", "apps/_search"}

C8_Scripts ==
    {"configure_2fa_enforcement", "configure_invitation_flow", "configure_recovery_flow"}

\* C8: in authentik_api.py run with a token and in the three configure
\* scripts, a response outside 2xx/3xx to a listing, create or update step
\* ends the run: it is the last request, a JSON object with an 'error' key is
\* on standard output or standard error, and the exit status is 1.
C8_FailureEndsRun ==
    (script \in C8_Scripts \/ (script = "authentik_api" /\ argv.token)) =>
        \A i \in Idx :
            Failing(reqs[i]) =>
                /\ Len(reqs) = i
                /\ Done
                /\ exitCode = 1
                /\ ErrorJsonEmitted

C9_Required(e) ==
    /\ e.method = "POST"
    /\ e.ep \in {"oauth/v2/token", "projects", "apps/oidc", "users/keys"}
    /\ ~(e.status = 409 /\ e.ep = "projects" /\ script = "zitadel_api")

\* C9: in zitadel_api.py, create_oidc_app.py and create_machine_user.py, a
\* response outside 2xx/3xx to a required step (token request, project
\* create, app create, key create) that ends the run leaves a JSON object
\* with an 'error' key on standard output or standard error and a non-zero
\* exit status.
C9_FailureIsErrorJson ==
    script \in {"zitadel_api", "create_oidc_app", "create_machine_user"} =>
        \A i \in Idx :
            (Failing(reqs[i]) /\ C9_Required(reqs[i]) /\ Len(reqs) = i /\ Done) =>
                /\ exitCode # 0
                /\ ErrorJsonEmitted

Printed(t) == \E k \in 1..Len(stdout) : stdout[k] = t

C10_GrantAnswered ==
    /\ script = "setup_automation"
    /\ Done
    /\ Len(reqs) >= 1
    /\ reqs[Len(reqs)].ep = "roles/_bulk/set"
    /\ reqs[Len(reqs)].status # 0

C10_Grant == reqs[Len(reqs)]

\* C10 as stated: in setup_automation.py, a response outside 2xx/3xx to the
\* PROJECT_OWNER grant call aborts the run with a non-zero exit status; the
\* SUCCESS message and exit status 0 come only when the grant call returned
\* 200 or 201.
C10_GrantFailureAborts ==
    C10_GrantAnswered =>
        /\ Failing(C10_Grant) => (exitCode # 0 /\ ~Printed(SuccessMessage))
        /\ (exitCode = 0 \/ Printed(SuccessMessage)) => C10_Grant.status \in {200, 201}

\* C10 amended: in setup_automation.py, whatever HTTP status the PROJECT_OWNER
\* grant call returns, the script prints no warning, prints its SUCCESS
\* message and exits 0; a status other than 200 or 201 is only reported by
\* the line "Permission grant failed".
C10_GrantStatusIgnored ==
    C10_GrantAnswered =>
        /\ exitCode = 0
        /\ Printed(SuccessMessage)
        /\ ~Printed(Text("Warning: Could not grant permissions"))
        /\ loc.granted
        /\ Printed(Text("Permission grant failed")) <=> C10_Grant.status \notin {200, 201}

\* C10 witness: the grant call was answered 500 and the run ended with the
\* SUCCESS message and exit status 0
C10_Witness ==
    /\ C10_GrantAnswered
    /\ C10_Grant.status = 500
    /\ exitCode = 0
    /\ Printed(SuccessMessage)

\* C11: whatever the remote responses, everything a script has written to
\* standard output is at most one JSON object; progress and diagnostic text
\* is on standard error only.
C11_StdoutIsOneJson ==
    /\ Len(stdout) <= 1
    /\ \A k \in 1..Len(stdout) : stdout[k].kind = "json"

C12_Success == script = "create_oidc_app" /\ Done /\ exitCode = 0

C12_Last == reqs[Len(reqs)]

\* C12 as stated: every run of create_oidc_app.py that exits 0, whether the
\* app was created or found existing, prints a JSON object with app_id,
\* client_id and client_secret.
C12_SuccessHasCredentials ==
    C12_Success =>
        /\ Len(stdout) = 1
        /\ HasKey(stdout[1], "app_id")
        /\ HasKey(stdout[1], "client_id")
        /\ HasKey(stdout[1], "client_secret")

\* C12 amended: a run of create_oidc_app.py that exits 0 prints one JSON
\* object with app_id.  When the app was created in this run the object has
\* status 'created' and the appId, clientId and clientSecret of the create
\* response; when the app was found existing it has status 'exists', the id of
\* the listed app and a message, and neither client_id nor client_secret.
C12_SuccessOutput ==
    C12_Success =>
        /\ Len(stdout) = 1
        /\ HasKey(stdout[1], "app_id")
        /\ LET obj == stdout[1].obj
           IN  \/ /\ obj.status = "created"
                  /\ C12_Last.method = "POST" /\ C12_Last.ep = "apps/oidc"
                  /\ C12_Last.status \in {200, 201}
                  /\ obj.app_id = Get(C12_Last.body, "appId", None)
                  /\ HasKey(stdout[1], "client_id")
                  /\ HasKey(stdout[1], "client_secret")
                  /\ obj.client_id = Get(C12_Last.body, "clientId", None)
                  /\ obj.client_secret = Get(C12_Last.body, "clientSecret", None)
               \/ /\ obj.status = "exists"
                  /\ C12_Last.ep = "apps/_search"
                  /\ Listed(C12_Last)
                  /\ \E k \in 1..Len(C12_Last.body.result) :
                        /\ C12_Last.body.result[k].name = argv.app_name
                        /\ C12_Last.body.result[k].id = obj.app_id
                  /\ ~HasKey(stdout[1], "client_id")
                  /\ ~HasKey(stdout[1], "client_secret")

\* C12 witness: a run that found the app existing has exited 0
C12_Witness ==
    /\ C12_Success
    /\ Len(stdout) = 1
    /\ HasKey(stdout[1], "status")
    /\ stdout[1].obj.status = "exists"

AuthentikScripts ==
    {"authentik_api", "configure_2fa_enforcement", "configure_invitation_flow",
     "configure_recovery_flow"}

\* what the transport handed to the wrapper for a logged request
OutcomeOf(e) ==
    IF e.status # 0 THEN Resp(e.status, e.json, e.body) ELSE [kind |-> e.body.exc]

\* the request wrapper of the running Authentik script
Wrapper(o) == IF script = "authentik_api" THEN _request(o) ELSE api_request(o)

\* C13: AuthentikAPI._request returns a (status, body) pair for every HTTP
\* response it receives, whether or not the body is valid JSON, and never
\* raises to its caller.
C13_RequestNeverRaises ==
    script = "authentik_api" =>
        /\ \A i \in Idx :
            reqs[i].status # 0 => ~_request(OutcomeOf(reqs[i])).raised
        /\ (wait.probes > 0 /\ wait.last.kind = "http") => ~_request(wait.last).raised

\* C14: on a transport-level failure (no HTTP response) every request wrapper
\* of the Authentik scripts returns status 0 with an error payload instead of
\* raising.
C14_TransportFailureIsZero ==
    script \in AuthentikScripts =>
        \A i \in Idx :
            reqs[i].status = 0 =>
                LET r == Wrapper(OutcomeOf(reqs[i]))
                IN  /\ ~r.raised
                    /\ r.status = 0
                    /\ "error" \in DOMAIN r.data

C15_AllPastSucceeded == \A k \in 1..Len(past) : past[k] = 0

C15_NamedStages ==
    {i \in 1..Len(srv.invStages) : srv.invStages[i].name = "default-enrollment-invitation"}

C15_EnrollmentPks ==
    {srv.flows[i].pk : i \in {j \in 1..Len(srv.flows) :
                                srv.flows[j].designation = "enrollment"}}

\* bindings of a stage named default-enrollment-invitation to an enrollment flow
C15_Bindings ==
    {i \in 1..Len(srv.bindings) :
        /\ srv.bindings[i].target \in C15_EnrollmentPks
        /\ \E k \in C15_NamedStages : srv.invStages[k].pk = srv.bindings[i].stage}

\* C15: configure_invitation_flow.py is idempotent across runs: when every
\* run so far succeeded, the service holds exactly one invitation stage named
\* 'default-enrollment-invitation' and exactly one binding of it to the
\* enrollment flow once the current run has succeeded too, and every run
\* after the first issues no POST.
C15_Idempotent ==
    (script = "configure_invitation_flow" /\ C15_AllPastSucceeded) =>
        /\ (Done /\ exitCode = 0) =>
            /\ Cardinality(C15_NamedStages) = 1
            /\ Cardinality(C15_Bindings) = 1
        /\ Len(past) >= 1 => \A i \in Idx : reqs[i].method # "POST"

\* C15 witness: a second run has succeeded after a first run that succeeded
\* and created the stage and the binding
C15_Witness ==
    /\ script = "configure_invitation_flow"
    /\ Len(past) >= 1
    /\ C15_AllPastSucceeded
    /\ Done /\ exitCode = 0
    /\ Len(reqs) = 3
    /\ srv.nextId = 3

\* credentials of the service that a run of these scripts minted
C16_MintedKeys == {i \in 1..Len(srv.machineKeys) : srv.machineKeys[i].keyId # "k0"}
C16_MintedPats == {i \in 1..Len(srv.pats) : srv.pats[i].token # "pat0"}

\* C16: a credential for the api-automation machine user is minted once: when
\* the user already has a key or token, create_machine_user.py and
\* bootstrap_api_token.py issue no minting call, so that after any number of
\* runs at most one credential minted by these scripts exists.
C16_MintedOnce ==
    script \in {"create_machine_user", "bootstrap_api_token"} =>
        /\ \A i \in Idx :
            reqs[i].ep \in {"users/keys", "users/pats"} => ~reqs[i].existed
        /\ Cardinality(C16_MintedKeys) <= 1
        /\ Cardinality(C16_MintedPats) <= 1

C17_Sent == script = "zitadel_api" /\ Len(reqs) >= 1

\* C17: the assertion built by ZitadelAPI.get_access_token has iss and sub
\* both equal to the userId of the loaded key file, aud equal to the
\* configured domain, exp exactly 3600 seconds after iat, and a header kid
\* equal to the key file's keyId.
C17_AssertionFields ==
    C17_Sent =>
        LET a == reqs[1].arg
        IN  /\ reqs[1].ep = "oauth/v2/token"
            /\ a.payload.iss = argv.jwt_key.userId
            /\ a.payload.sub = argv.jwt_key.userId
            /\ a.payload.aud = argv.domain
            /\ a.payload.exp = a.payload.iat + 3600
            /\ a.headers.kid = argv.jwt_key.keyId

\* C17 witness: an assertion was built from the second key file at the later
\* clock value and sent
C17_Witness ==
    /\ C17_Sent
    /\ argv.jwt_key.userId = "u7"
    /\ reqs[1].arg.payload.iat = 1700000000
    /\ reqs[1].arg.payload.iss = "u7"

C18_IsExchange(e) == e.method = "POST" /\ e.ep = "oauth/v2/token"

\* C18: in every run of zitadel_api.py the token exchange happens exactly once
\* and before any management call; every later call carries the access token
\* the exchange returned as its bearer credential, and when the exchange does
\* not return 200 no management call is issued.
C18_ExchangeOnceFirst ==
    (script = "zitadel_api" /\ Len(reqs) >= 1) =>
        /\ C18_IsExchange(reqs[1])
        /\ reqs[1].auth = None
        /\ \A i \in 2..Len(reqs) :
            /\ ~C18_IsExchange(reqs[i])
            /\ reqs[1].status = 200
            /\ reqs[i].auth = Get(reqs[1].body, "access_token", None)
        /\ reqs[1].status # 200 => (Len(reqs) = 1 /\ Done)

\* C18 witness: a run has issued its management calls with the second of the
\* tokens the exchange may return
C18_Witness ==
    /\ script = "zitadel_api"
    /\ Len(reqs) >= 3
    /\ reqs[1].status = 200
    /\ reqs[3].auth = "at2"

C19_Patches == {i \in Idx : reqs[i].method = "PATCH"}

C19_Writes == {i \in Idx : reqs[i].method \in {"POST", "PUT", "PATCH", "DELETE"}}

\* the PATCH at position i follows two listings that returned 200 and held the
\* validation stage and the TOTP setup stage; it targets the stage found and
\* asks for 'configure' with exactly the TOTP stage found
C19_PatchAfterBothFound(i) ==
    /\ i = 3
    /\ Listed(reqs[1]) /\ reqs[1].ep = "stages/authenticator/validate"
    /\ Listed(reqs[2]) /\ reqs[2].ep = "stages/authenticator/totp"
    /\ LET vs == Get(reqs[1].body, "results", <<>>)
           ts == Get(reqs[2].body, "results", <<>>)
       IN  \E m \in 1..Len(vs), t \in 1..Len(ts) :
            /\ IsMfaValidation(vs[m]) /\ \A j \in 1..(m - 1) : ~IsMfaValidation(vs[j])
            /\ IsTotpSetup(ts[t]) /\ \A j \in 1..(t - 1) : ~IsTotpSetup(ts[j])
            /\ reqs[i].ep = "stages/authenticator/validate"
            /\ reqs[i].arg.pk = vs[m].pk
            /\ reqs[i].arg.data.name = vs[m].name
            /\ reqs[i].arg.data.not_configured_action = "configure"
            /\ reqs[i].arg.data.configuration_stages = <<ts[t].pk>>

C19_PatchOnce ==
    /\ Cardinality(C19_Patches) <= 1
    /\ C19_Writes = C19_Patches
    /\ \A i \in C19_Patches : C19_PatchAfterBothFound(i)

\* C19 as stated: configure_2fa_enforcement.py issues its PATCH at most once
\* per run and only after both stages were found in listings that returned
\* 200; the PATCH targets the found validation stage and sets
\* not_configured_action to 'configure' with exactly the found TOTP stage; on
\* every failing path the run has issued no write.
C19_PatchOnlyOnSuccess ==
    script = "configure_2fa_enforcement" =>
        /\ C19_PatchOnce
        /\ (Done /\ exitCode # 0) => C19_Writes = {}

\* C19 amended: the PATCH is issued at most once per run, is the run's only
\* write, and comes only after both stages were found in listings that
\* returned 200, with the target and the data as stated; a run that fails
\* before the PATCH has issued no write, and a run that fails at the PATCH
\* (status other than 200/201, or no usable response) has issued that one
\* write and exits 1.
C19_PatchOnceAfterListings ==
    script = "configure_2fa_enforcement" =>
        /\ C19_PatchOnce
        /\ (Done /\ exitCode # 0) =>
            \/ C19_Writes = {}
            \/ /\ C19_Writes = {3}
               /\ Len(reqs) = 3
               /\ ~(reqs[3].status \in {200, 201} /\ reqs[3].json)
               /\ exitCode = 1

\* C19 witness: a run has patched the validation stage and exited 0
C19_Witness ==
    /\ script = "configure_2fa_enforcement"
    /\ Done /\ exitCode = 0
    /\ C19_Patches = {3}
    /\ \E i \in 1..Len(srv.mfaStages) :
        /\ srv.mfaStages[i].not_configured_action = "configure"
        /\ srv.mfaStages[i].configuration_stages = <<loc.totp_setup_pk>>

\* a run as the usage text shows it, against a service whose initial setup is
\* pending: the probe of the setup flow was answered 200
C20_UsageRun ==
    /\ script = "authentik_api"
    /\ ~argv.token
    /\ argv.bootstrap_password
    /\ loc.ready
    /\ Len(reqs) >= 1
    /\ reqs[1].ep = "initial-setup"
    /\ Listed(reqs[1])

\* C20: invoked with --bootstrap-password and no --token against an Authentik
\* instance whose initial setup is pending, authentik_api.py bootstraps the
\* admin user, creates the OIDC provider and returns the client credentials:
\* the run ends with exit status 0 and a JSON object with client_id and
\* client_secret on standard output, the setup no longer pending.
C20_BootstrapThenProvision ==
    (C20_UsageRun /\ Done) =>
        /\ exitCode = 0
        /\ ~srv.setupPending
        /\ \E i \in Idx : reqs[i].method = "POST" /\ reqs[i].ep = "providers"
        /\ \E k \in 1..Len(stdout) :
            HasKey(stdout[k], "client_id") /\ HasKey(stdout[k], "client_secret")

\* the run printed a JSON object whose 'success' is true on standard output
C21_PrintedSuccess ==
    \E k \in 1..Len(stdout) :
        HasKey(stdout[k], "success") /\ stdout[k].obj.success = TRUE

\* C21: after every run of create_recovery_flow.py that reports success
\* (prints 'success': true and exits with status 0), a recovery flow exists
\* on the server.
C21_SuccessMeansFlowExists ==
    (script = "create_recovery_flow" /\ Done /\ exitCode = 0 /\ C21_PrintedSuccess) =>
        \E i \in 1..Len(srv.flows) : IsRecovery(srv.flows[i])

\* the wrapper handed the answer of a logged request back to its caller
C22_Answered(e) == ~_request(OutcomeOf(e)).raised

\* the body of an answer lists a flow the lookup accepts
C22_ListsFlow(e) ==
    \E f \in {EnrollmentFlow, DefaultAuthFlow, OtherAuthFlow} :
        /\ \E n \in 1..Len(Get(e.body, "results", <<>>)) : e.body.results[n] = f
        /\ f.slug = "default-authorization-flow" \/ f.designation = "authorization"

\* the lookup of the authorization flow found one / the lookup of the signing
\* key found one
C22_FlowFound(e) ==
    e.method = "GET" /\ e.ep = "flows" /\ C22_Answered(e) /\ C22_ListsFlow(e)
C22_KeyFound(e) ==
    /\ e.method = "GET" /\ e.ep = "keys" /\ Listed(e)
    /\ Len(Get(e.body, "results", <<>>)) > 0

\* a lookup came back to main without a flow, or without a key
C22_Missing ==
    \E j \in Idx :
        /\ C22_Answered(reqs[j])
        /\ \/ reqs[j].ep = "flows" /\ ~C22_FlowFound(reqs[j])
           \/ reqs[j].ep = "keys" /\ ~C22_KeyFound(reqs[j])

\* C22: authentik_api.py main issues the provider create call only after both
\* an authorization flow and a signing key were found; when either is missing
\* it issues no POST at all, prints a JSON object with an 'error' key and
\* exits with status 1.
C22_ProviderNeedsFlowAndKey ==
    script = "authentik_api" =>
        /\ \A i \in PostsTo("providers") :
            /\ \E j \in 1..(i - 1) : C22_FlowFound(reqs[j])
            /\ \E k \in 1..(i - 1) : C22_KeyFound(reqs[k])
        /\ (Done /\ C22_Missing) =>
            /\ \A i \in Idx : reqs[i].method # "POST"
            /\ ErrorJsonEmitted
            /\ exitCode = 1

\* the provider create calls of this run that came back 201
C23_Created == {j \in PostsTo("providers") : reqs[j].status = 201 /\ reqs[j].json}

\* the application create calls of this run that did not come back 201
C23_FailedApps ==
    {i \in PostsTo("applications") : ~(reqs[i].status = 201 /\ reqs[i].json)}

\* the service holds a provider with this pk
C23_ProviderExists(pk) == \E n \in 1..Len(srv.providers) : srv.providers[n].pk = pk

\* C23: in authentik_api.py main the application create call is issued only
\* after a provider create returned 201 and carries that provider's pk; when
\* the application create then fails, the run exits 1 without issuing any
\* delete, so the provider created earlier in the run still exists on the
\* server (no rollback).
C23_NoRollback ==
    script = "authentik_api" =>
        /\ \A i \in PostsTo("applications") :
            \E j \in C23_Created : j < i /\ reqs[i].arg = reqs[j].body.pk
        /\ \A i \in C23_FailedApps :
            /\ \A k \in Idx : reqs[k].method \notin {"DELETE", "PATCH", "PUT"}
            /\ C23_ProviderExists(reqs[i].arg)
            /\ Done
            /\ exitCode = 1

\* a run created its provider, failed to create the application and ended:
\* the provider is left on the service without an application
C23_Witness ==
    /\ script = "authentik_api"
    /\ Done
    /\ exitCode = 1
    /\ \E i \in C23_FailedApps :
        /\ C23_ProviderExists(reqs[i].arg)
        /\ \A n \in 1..Len(srv.applications) :
            srv.applications[n].provider # reqs[i].arg

\* the least position of a listing whose flow has the slug / the designation
C24_SlugAt(res) ==
    {n \in 1..Len(res) : res[n].slug = "default-authorization-flow"}
C24_DesignationAt(res) ==
    {n \in 1..Len(res) : res[n].designation = "authorization"}
C24_Least(S) == CHOOSE n \in S : \A m \in S : n <= m

\* what the lookup is to return for a listing
C24_Expected(res) ==
    IF C24_SlugAt(res) # {} THEN res[C24_Least(C24_SlugAt(res))].pk
    ELSE IF C24_DesignationAt(res) # {} THEN res[C24_Least(C24_DesignationAt(res))].pk
    ELSE None

\* C24: get_default_authorization_flow, on a flow listing that returned 200,
\* returns the pk of the flow whose slug is 'default-authorization-flow'
\* whenever the listing contains one, at whatever position and even when an
\* earlier flow has designation 'authorization'; only when no flow has that
\* slug does it return the first flow with designation 'authorization', and
\* None when there is neither.
C24_SlugBeforeDesignation ==
    script = "authentik_api" =>
        \A i \in Idx :
            (reqs[i].ep = "flows" /\ Listed(reqs[i])) =>
                loc.flow_uuid = C24_Expected(reqs[i].body.results)

\* the listing had another authorization flow ahead of the flow with the
\* default slug, and the lookup returned the latter
C24_Witness ==
    /\ script = "authentik_api"
    /\ \E i \in Idx :
        /\ reqs[i].ep = "flows" /\ Listed(reqs[i])
        /\ reqs[i].body.results = <<OtherAuthFlow, DefaultAuthFlow>>
    /\ loc.flow_uuid = DefaultAuthFlow.pk

\* the binding create calls of this run that the service answered with the
\* new binding
C25_Bound == {i \in PostsTo("bindings") : reqs[i].status \in {200, 201} /\ reqs[i].json}

\* C25: after a run of configure_invitation_flow.py that creates the binding,
\* the invitation stage is first in the enrollment flow: its binding's order
\* is strictly lower than the order of every other binding of that flow, for
\* any set of pre-existing bindings.
C25_InvitationStageFirst ==
    (script = "configure_invitation_flow" /\ Done /\ exitCode = 0) =>
        \A i \in C25_Bound :
            \A n \in 1..Len(srv.bindings) :
                (/\ srv.bindings[n].target = reqs[i].body.target
                 /\ srv.bindings[n].pk # reqs[i].body.pk) =>
                    reqs[i].body.order < srv.bindings[n].order

\* the calls below a parent: the OIDC app of a project, the key of a user
C26_ChildCalls == {i \in Idx : reqs[i].ep \in {"apps/oidc", "users/keys"}}

\* C26: zitadel_api.py and create_machine_user.py never issue a management
\* call whose parent identifier is absent: when the 409 fallback search finds
\* no project (zitadel_api.py) or no user (create_machine_user.py), the run
\* aborts with a non-zero exit instead of calling the app-create or
\* key-create endpoint with a missing id.
C26_ParentIdPresent ==
    script \in {"zitadel_api", "create_machine_user"} =>
        \A i \in C26_ChildCalls : reqs[i].arg # None

\* a search call that returned 200 with a listing without an entry of the name
C27_SearchedNone(e, ep, name) ==
    /\ e.ep = ep
    /\ Listed(e)
    /\ \A n \in 1..Len(Get(e.body, "result", <<>>)) : e.body.result[n].name # name

\* C27: in create_oidc_app.py a failed listing is not taken for absence: a
\* project create call or an OIDC app create call is issued only after the
\* corresponding search call returned 200 with no matching entry; when the
\* search call itself fails, no create call is issued.
C27_CreateOnlyAfterEmptySearch ==
    script = "create_oidc_app" =>
        /\ \A i \in PostsTo("projects") :
            \E j \in 1..(i - 1) :
                C27_SearchedNone(reqs[j], "projects/_search", ProjectName)
        /\ \A i \in PostsTo("apps/oidc") :
            \E j \in 1..(i - 1) :
                C27_SearchedNone(reqs[j], "apps/_search", argv.app_name)

\* the invitation stages of the service that carry the name
C28_Stages ==
    {n \in 1..Len(srv.invStages) : srv.invStages[n].name = InvitationStageName}

\* the bindings of such a stage to the enrollment flow
C28_StageBindings ==
    {n \in 1..Len(srv.bindings) :
        /\ srv.bindings[n].target = EnrollmentFlow.pk
        /\ \E k \in C28_Stages : srv.invStages[k].pk = srv.bindings[n].stage}

\* C28: two invocations of configure_invitation_flow.py running at the same
\* time against the same server, with their requests interleaved in any
\* order, need no locking: they still leave at most one invitation stage
\* named 'default-enrollment-invitation' and at most one binding of it to the
\* enrollment flow.
C28_AtMostOneUnderRace ==
    /\ Cardinality(C28_Stages) <= 1
    /\ Cardinality(C28_StageBindings) <= 1

\* wait_for_ready is in its loop / has returned to main
C29_Polling == script = "authentik_api" /\ pc = "wait_for_ready"
C29_Returned == script = "authentik_api" /\ pc = "main_ready"

\* the last probe came back to wait_for_ready with status 200 or 302
C29_LastProbeOk ==
    /\ wait.probes > 0
    /\ wait.last.kind = "http"
    /\ wait.last.status \in {200, 302}

\* (every iteration that does not return sleeps, so n probes take at least
\* n - 1 sleeps, and a probe is only started before the timeout)
\* C29: wait_for_ready always terminates: for every timeout value and every
\* sequence of probe outcomes (including probes that raise), it returns after
\* finitely many probes, provided the clock advances by at least the 5-second
\* sleep on each iteration; it returns True only if some probe returned
\* status 200 or 302.
C29_WaitTerminates ==
    /\ C29_Polling ~> C29_Returned
    /\ [](C29_Returned => (wait.probes * SleepSecs <= wait.now + SleepSecs))
    /\ []((C29_Returned /\ ~loc.ready) => wait.probes * SleepSecs < argv.wait_timeout + SleepSecs)
    /\ []((C29_Returned /\ loc.ready) => C29_LastProbeOk)

\* the poll returned False after several probes, the last of which raised
C29_Witness ==
    /\ C29_Returned
    /\ ~loc.ready
    /\ wait.probes >= 2
    /\ wait.last.kind = "http" /\ wait.last.status = 200 /\ ~wait.last.json

====
